---------------------------- MODULE Spec2Model ----------------------------
(***************************************************************************)
(* The constellation background of src/src/js/script.js                    *)
(* (initializeConstellation, lines 86-430) as a state machine: the         *)
(* particle field, the shooting stars, the pointer, the debounced resize   *)
(* and the requestAnimationFrame loop.                                     *)
(*                                                                         *)
(* Numbers.  The script computes in IEEE doubles.  Here every length and   *)
(* every velocity is a fixed-point integer counting 1/Scale pixels, and    *)
(* every real-valued operation rounds to the nearest unit (RoundDiv) where *)
(* the script rounds to the nearest double.  Math.floor stays a floor.     *)
(* Fractional constants of CONFIG are written in thousandths, and a value   *)
(* of Math.random() as its numerator over 1000.                            *)
(***************************************************************************)
EXTENDS Integers, Sequences, FiniteSets, TLC

(***************************************************************************)
(* Bounds of the model                                                     *)
(***************************************************************************)
\* fixed-point resolution: units per pixel
Scale == 100
\* rendered frames per behaviour
MaxFrames == 3
\* events of the environment per behaviour: resizes, pointer events,
\* callbacks of the interval timer, visibility changes
MaxEvents == 3
\* milliseconds by which one step of the clock advances
TickMs == 125

(***************************************************************************)
(* Program constants (CONFIG.constellation and literals of the script)     *)
(***************************************************************************)
particleDensity == 15000
particleDensityMobile == 30000
connectionDistance == 120
\* 0.4 px per frame, in thousandths
particleSpeedRange == 400
\* 0.5 px, in thousandths
particleMinRadius == 500
\* 2.0 px, in thousandths
particleMaxRadius == 2000
mouseRadius == 180
\* 0.08, in thousandths
mouseRepelForce == 80
\* 0.02, in thousandths
mouseReturnSpeed == 20
shootingStarSpeed == 12
shootingStarLength == 80
\* 0.002 rad per frame, in thousandths
pulseSpeed == 2
\* window.innerWidth < 768 selects the mobile density
MobileBreakpoint == 768
\* debounce(..., 250)
ResizeDelay == 250
\* Math.random() < 0.7, in thousandths
SpawnChance == 700
\* colorCacheFrame++ % 60
ColorRefreshFrames == 60
\* isDead: canvas.width + 50, canvas.height + 50
DeadMargin == 50
\* a new star starts at -10 on the edge it enters from
StarEdgeOffset == 10
\* this.life = 1.0, in thousandths
StarLife == 1000
\* this.decay = 0.008 + Math.random() * 0.008, in thousandths
StarDecayBase == 8
\* Math.sin(...) * 0.4, in thousandths
PulseAmplitude == 400
\* Math.random() * 40 added to the trail length
StarLengthJitter == 40
\* Math.PI, in thousandths of a radian
PiMilli == 3142

(***************************************************************************)
(* Arithmetic                                                              *)
(***************************************************************************)
Abs(a) == IF a < 0 THEN -a ELSE a

Min(a, b) == IF a < b THEN a ELSE b

Max(a, b) == IF a > b THEN a ELSE b

\* a / b rounded to the nearest integer, halves away from zero (b > 0)
RoundDiv(a, b) ==
    IF a >= 0 THEN (2 * a + b) \div (2 * b)
    ELSE -((2 * (-a) + b) \div (2 * b))

\* Math.ceil(a / b) for a >= 0, b > 0
CeilDiv(a, b) == (a + b - 1) \div b

\* pixels to fixed-point units
Px(p) == p * Scale

\* a constant given in thousandths of a pixel, in fixed-point units
MilliPx(m) == RoundDiv(m * Scale, 1000)

RECURSIVE SqrtSearch(_, _, _)
SqrtSearch(n, lo, hi) ==
    IF lo >= hi THEN lo
    ELSE LET mid == (lo + hi + 1) \div 2
         IN IF mid * mid <= n THEN SqrtSearch(n, mid, hi)
            ELSE SqrtSearch(n, lo, mid - 1)

\* floor(Math.sqrt(n)) for 0 <= n < 2^31
ISqrt(n) == SqrtSearch(n, 0, 46340)

\* Math.sin on [0, pi]: Bhaskara's rational approximation, argument in
\* thousandths of a radian, result in thousandths
SinHalfTurn(a) ==
    LET p == a * (PiMilli - a)
    IN RoundDiv(16000 * (p \div 100),
                (5 * PiMilli * PiMilli - 4 * p) \div 100)

\* Math.sin(a), a in thousandths of a radian, result in thousandths
Sin(a) ==
    LET t == a % (2 * PiMilli)
    IN IF t <= PiMilli THEN SinHalfTurn(t) ELSE -SinHalfTurn(t - PiMilli)

\* Math.cos(a) = sin(a + pi/2)
Cos(a) == Sin(a + PiMilli \div 2)

(***************************************************************************)
(* Math.random()                                                           *)
(*                                                                         *)
(* A draw is the numerator r of r/1000 in [0, 1).  The generator's seed is *)
(* not observable, so each batch of particles draws from one of NumSeeds   *)
(* streams: particle i of the batch takes its six draws (x, y, vx, vy,     *)
(* radius, phase) from RandVals, rotated by the seed and by i, so that one *)
(* batch holds particles on the left/top edge moving out, in the middle at *)
(* rest, and next to the right/bottom edge moving out.  From the fourth    *)
(* stream on the pairs (x, y), (vx, vy), (radius, phase) are rotated       *)
(* against each other.                                                     *)
(***************************************************************************)
RandVals == <<0, 500, 999>>

Draw(seed, i, k) ==
    RandVals[((seed + i + ((k - 1) \div 2) * (seed \div 3)) % 3) + 1]

\* r * a for a draw r and a >= 0
Frac(r, a) == RoundDiv(r * a, 1000)

(***************************************************************************)
(* class Particle                                                          *)
(***************************************************************************)
\* reset(): the particle a constructor call makes on a W x H canvas (pixels)
\* from six draws; id is the identity of the new object
ParticleReset(id, d, W, H) ==
    LET vx == Frac(d[3], MilliPx(particleSpeedRange))
                - RoundDiv(MilliPx(particleSpeedRange), 2)
        vy == Frac(d[4], MilliPx(particleSpeedRange))
                - RoundDiv(MilliPx(particleSpeedRange), 2)
        baseRadius == Frac(d[5], MilliPx(particleMaxRadius) - MilliPx(particleMinRadius))
                        + MilliPx(particleMinRadius)
    IN [id |-> id,
        x |-> Frac(d[1], Px(W)), y |-> Frac(d[2], Px(H)),
        vx |-> vx, vy |-> vy, baseVx |-> vx, baseVy |-> vy,
        baseRadius |-> baseRadius, radius |-> baseRadius,
        pulseOffset |-> Frac(d[6], 2 * PiMilli)]

\* this.baseRadius + Math.sin(frameCount * pulseSpeed + this.pulseOffset) * 0.4
BreathingRadius(p, fc) ==
    p.baseRadius
      + RoundDiv(Sin(fc * pulseSpeed + p.pulseOffset) * MilliPx(PulseAmplitude), 1000)

\* Math.sqrt(n) rounded to the nearest unit
Sqrt(n) == LET s == ISqrt(n) IN IF n - s * s > s THEN s + 1 ELSE s

\* dx * dx + dy * dy < r * r.  When |dx| >= r or |dy| >= r the sum is at
\* least r * r, and the products are not formed: they would leave TLC's
\* 32-bit integers.
Within(dx, dy, r) ==
    /\ Abs(dx) < r
    /\ Abs(dy) < r
    /\ dx * dx + dy * dy < r * r

\* Repel without the test of mouse.active: the last pointer position
\* keeps pushing after the pointer has left
RepelWithoutActiveTest(p, m) ==
    LET dx == p.x - Px(m.x)
        dy == p.y - Px(m.y)
    IN IF Within(dx, dy, Px(mouseRadius)) /\ (dx # 0 \/ dy # 0)
       THEN LET dist == Sqrt(dx * dx + dy * dy)
                force == RoundDiv((Px(mouseRadius) - dist) * MilliPx(mouseRepelForce),
                                  Px(mouseRadius))
            IN <<RoundDiv(dx * force, dist), RoundDiv(dy * force, dist)>>
       ELSE <<0, 0>>

\* the velocity change <<dvx, dvy>> of the pointer's repel force on p
\* (update(), "Mouse interaction"); <<0, 0>> when none is applied
Repel(p, m) ==
    IF ~m.active THEN <<0, 0>>
    ELSE LET dx == p.x - Px(m.x)
             dy == p.y - Px(m.y)
         IN IF Within(dx, dy, Px(mouseRadius)) /\ (dx # 0 \/ dy # 0)
            THEN LET dist == Sqrt(dx * dx + dy * dy)
                     force == RoundDiv((Px(mouseRadius) - dist) * MilliPx(mouseRepelForce),
                                       Px(mouseRadius))
                 IN <<RoundDiv(dx * force, dist), RoundDiv(dy * force, dist)>>
            ELSE <<0, 0>>

\* whether update() enters the branch that adds the repel force to p
Repelled(p, m) ==
    /\ m.active
    /\ Within(p.x - Px(m.x), p.y - Px(m.y), Px(mouseRadius))
    /\ (p.x # Px(m.x) \/ p.y # Px(m.y))

\* Relax with the sign of the step reversed: the velocity leaves its base
RelaxAway(v, base) == v - RoundDiv((base - v) * mouseReturnSpeed, 1000)

\* v += (base - v) * mouseReturnSpeed
Relax(v, base) == v + RoundDiv((base - v) * mouseReturnSpeed, 1000)

\* Clamp that sets the position and leaves the velocity as it is
ClampKeepingVelocity(pos, vel, limit) ==
    IF pos < 0 THEN <<0, vel>>
    ELSE IF pos > limit THEN <<limit, vel>>
    ELSE <<pos, vel>>

\* Clamp without the branch of the far edge
ClampNearEdgeOnly(pos, vel, limit) ==
    IF pos < 0 THEN <<0, Abs(vel)>> ELSE <<pos, vel>>

\* "Clamp position and ensure correct velocity direction", one axis:
\* <<position, velocity>> after the clamp at 0 and at limit
Clamp(pos, vel, limit) ==
    IF pos < 0 THEN <<0, Abs(vel)>>
    ELSE IF pos > limit THEN <<limit, -Abs(vel)>>
    ELSE <<pos, vel>>

\* the velocity <<vx, vy>> update() integrates: the repel force added, then
\* the return toward the base velocity
Steered(p, m) ==
    LET f == Repel(p, m)
    IN <<Relax(p.vx + f[1], p.baseVx), Relax(p.vy + f[2], p.baseVy)>>

\* whether update() takes one of its four clamp branches for p
Clamped(p, m, W, H) ==
    LET v == Steered(p, m)
    IN \/ p.x + v[1] < 0 \/ p.x + v[1] > Px(W)
       \/ p.y + v[2] < 0 \/ p.y + v[2] > Px(H)

\* update(): p after one frame on a W x H canvas
ParticleUpdate(p, m, W, H, fc) ==
    LET v == Steered(p, m)
        cx == Clamp(p.x + v[1], v[1], Px(W))
        cy == Clamp(p.y + v[2], v[2], Px(H))
    IN [p EXCEPT !.radius = BreathingRadius(p, fc),
                 !.x = cx[1], !.vx = cx[2], !.y = cy[1], !.vy = cy[2]]

(***************************************************************************)
(* class ShootingStar                                                      *)
(***************************************************************************)
\* constructor: five draws (side, place on the edge, angle, length, decay)
ShootingStarNew(id, d, W, H) ==
    LET angle == PiMilli \div 6 + Frac(d[3], PiMilli \div 4)
    IN [id |-> id,
        x |-> IF d[1] < 500 THEN Frac(d[2], Px(W)) ELSE -Px(StarEdgeOffset),
        y |-> IF d[1] < 500 THEN -Px(StarEdgeOffset) ELSE Frac(d[2], Px(H)) \div 2,
        vx |-> RoundDiv(Cos(angle) * Px(shootingStarSpeed), 1000),
        vy |-> RoundDiv(Sin(angle) * Px(shootingStarSpeed), 1000),
        length |-> Px(shootingStarLength) + Frac(d[4], Px(StarLengthJitter)),
        life |-> StarLife,
        decay |-> StarDecayBase + Frac(d[5], StarDecayBase)]

\* update() without the decay of life
ShootingStarUpdateWithoutDecay(s) ==
    [s EXCEPT !.x = s.x + s.vx, !.y = s.y + s.vy]

\* update()
ShootingStarUpdate(s) ==
    [s EXCEPT !.x = s.x + s.vx, !.y = s.y + s.vy, !.life = s.life - s.decay]

\* isDead() on a W x H canvas
isDead(s, W, H) ==
    \/ s.life <= 0
    \/ s.x > Px(W + DeadMargin)
    \/ s.y > Px(H + DeadMargin)

\* draw() paints the star unless it returns at once (this.life <= 0)
StarPainted(s) == s.life > 0

(***************************************************************************)
(* connectParticles: the spatial hash                                      *)
(***************************************************************************)
\* the number of columns without the one added to the quotient
GridColsWithoutSpare(W) == CeilDiv(W, connectionDistance)

\* Math.ceil(canvas.width / cellSize) + 1, and the same for the rows
GridCols(W) == CeilDiv(W, connectionDistance) + 1

GridRows(H) == CeilDiv(H, connectionDistance) + 1

\* Math.floor(p.x / cellSize), Math.floor(p.y / cellSize)
CellCol(p) == p.x \div Px(connectionDistance)

CellRow(p) == p.y \div Px(connectionDistance)

\* key = row * cols + col
CellKey(p, cols) == CellRow(p) * cols + CellCol(p)

\* grid[key]: the indices pushed under key, in the order of the loop
Bucket(ps, cols, key) ==
    SelectSeq([i \in 1..Len(ps) |-> i], LAMBDA i : CellKey(ps[i], cols) = key)

\* the neighbor offsets without the bottom-left cell
neighborsWithoutBottomLeft == << <<0, 0>>, <<0, 1>>, <<1, 0>>, <<1, 1>> >>

\* "same cell, right, bottom-left, bottom, bottom-right", as <<dr, dc>>
neighbors == << <<0, 0>>, <<0, 1>>, <<1, -1>>, <<1, 0>>, <<1, 1>> >>

\* distSq < maxDistSq
Close(p1, p2) == Within(p1.x - p2.x, p1.y - p2.y, Px(connectionDistance))

\* the inner loops with j starting at i in the same cell
LoopPairsFromSelf(a, b, isSameCell) ==
    LET all == [k \in 1..(Len(a) * Len(b)) |->
                   <<((k - 1) \div Len(b)) + 1, ((k - 1) % Len(b)) + 1>>]
        kept == SelectSeq(all, LAMBDA ij : isSameCell => ij[2] >= ij[1])
    IN [k \in 1..Len(kept) |-> <<a[kept[k][1]], b[kept[k][2]]>>]

\* the pairs <<cellParticles[i], neighborParticles[j]>> the two inner loops
\* visit, in order (j starts at i + 1 in the same cell)
LoopPairs(a, b, isSameCell) ==
    LET all == [k \in 1..(Len(a) * Len(b)) |->
                   <<((k - 1) \div Len(b)) + 1, ((k - 1) % Len(b)) + 1>>]
        kept == SelectSeq(all, LAMBDA ij : isSameCell => ij[2] >= ij[1] + 1)
    IN [k \in 1..Len(kept) |-> <<a[kept[k][1]], b[kept[k][2]]>>]

\* the pairs visited for the cell cellIdx and its n-th neighbor offset;
\* none when the neighbor lies outside the grid or holds no particle
OffsetPairs(ps, cols, rows, cellIdx, n) ==
    LET cellRow == cellIdx \div cols
        cellCol == cellIdx % cols
        nr == cellRow + neighbors[n][1]
        nc == cellCol + neighbors[n][2]
    IN IF nr < 0 \/ nr >= rows \/ nc < 0 \/ nc >= cols THEN <<>>
       ELSE LoopPairs(Bucket(ps, cols, cellIdx), Bucket(ps, cols, nr * cols + nc),
                      neighbors[n][1] = 0 /\ neighbors[n][2] = 0)

RECURSIVE CellPairs(_, _, _, _, _)
CellPairs(ps, cols, rows, cellIdx, n) ==
    IF n > Len(neighbors) THEN <<>>
    ELSE OffsetPairs(ps, cols, rows, cellIdx, n)
           \o CellPairs(ps, cols, rows, cellIdx, n + 1)

\* "for (const cellKey in grid)": integer keys come in ascending order
RECURSIVE GridPairs(_, _, _, _)
GridPairs(ps, cols, rows, keys) ==
    IF keys = {} THEN <<>>
    ELSE LET k == CHOOSE c \in keys : \A o \in keys : c <= o
         IN CellPairs(ps, cols, rows, k, 1) \o GridPairs(ps, cols, rows, keys \ {k})

\* every pair of particle indices whose distance the function computes
EvaluatedPairs(ps, W, H) ==
    GridPairs(ps, GridCols(W), GridRows(H),
              {CellKey(ps[i], GridCols(W)) : i \in 1..Len(ps)})

\* the lines connectParticles strokes on a W x H canvas, in order, each as
\* the pair <<index of p1, index of p2>>
connectParticles(ps, W, H) ==
    SelectSeq(EvaluatedPairs(ps, W, H), LAMBDA pr : Close(ps[pr[1]], ps[pr[2]]))

(***************************************************************************)
(* State                                                                   *)
(***************************************************************************)
VARIABLES
    canvas,           \* the element: present, dataset.initialized, width, height
    innerWidth,       \* window.innerWidth
    innerHeight,      \* window.innerHeight
    hidden,           \* document.hidden
    theme,            \* what the page's style gives for the two colour variables:
                      \* the colours of "dark", of "light", or "" (none)
    particles,        \* let particles
    shootingStars,    \* let shootingStars
    frameCount,       \* let frameCount
    mouse,            \* const mouse = { x, y, active }
    frameColors,      \* let frameColors
    colorCacheFrame,  \* let colorCacheFrame
    timeouts,         \* pending timeouts of debounce: <<[rem, current]>>;
                      \* current marks the one the closure's timer names
    rafPending,       \* outstanding requestAnimationFrame(animate) requests
    intervals,        \* running setInterval timers of the spawn callback
    listeners,        \* registered listeners: mousemove, mouseleave, resize
    painted,          \* the bitmap shows a frame rendered from the current particles
    lines,            \* the lines connectParticles stroked on the bitmap
    glow,             \* the particles with a pointer-glow line on the bitmap
    forced,           \* the particles the last rendered frame gave a repel force
    clamped,          \* the particles the last rendered frame clamped at an edge
    removed,          \* ids of the stars filtered out of shootingStars so far
    nextId,           \* identity of the next Particle object
    nextStarId,       \* identity of the next ShootingStar object
    resized,          \* since: ms since the last resize event (up to ResizeDelay);
                      \* runs: handler runs since that event (up to 2); from: the
                      \* canvas size the last handler run replaced; turn: flips
                      \* with every resize event
    count,            \* events so far (up to MaxEvents each): signals, runs,
                      \* spawnTicks, pointer, visibility, and guarded: the
                      \* calls of initializeConstellation that returned at
                      \* one of its two guards
    loop,             \* the runs of animate.  turn: flips with every run;
                      \* skipped: a run found the document hidden since it
                      \* was last hidden; resumed: a frame was rendered
                      \* after such a run
    colorReadFrame,   \* the rendered frame whose getFrameColors() last called
                      \* getConstellationColors(); 0 before any
    nav,              \* the page around the canvas (setupPage): main and
                      \* title: the page whose content and title are
                      \* shown; leaving: main carries 'is-leaving'; active:
                      \* the nav link marked active; loads: the loadPage
                      \* calls so far, each with its url and its phase
    puzzle,           \* the bio puzzle.  grid: the document holds
                      \* #bio-puzzle-grid; handler and cleanup: the click
                      \* handler on the button and window._puzzleCleanup;
                      \* active, label: puzzleActive and the button's label;
                      \* objs: the piece objects made so far, pieces: those
                      \* in the closure's array; orig: the inline style of
                      \* each original tile; tracked: animationId names a
                      \* frame request, untracked: the physics requests it
                      \* does not name; shrinks, timers, scrolls, drags:
                      \* the callbacks outstanding; session, endedBy, last,
                      \* moves, owed: the sessions and handlers so far
    vhs,              \* the VHS shelf.  current: currentTape (0: null);
                      \* inserted: the tapes with the class 'inserted';
                      \* active, loading: the classes of the player; video:
                      \* the tape whose iframe the container holds (0:
                      \* none); timers: the timeouts outstanding; clicks:
                      \* the clicks so far; threw: a callback has thrown
    overlay           \* the overlays.  toggles: the toggleMenu listeners
                      \* on the hamburger; hamburger, menu, modal,
                      \* lightbox: the elements with the class 'active';
                      \* body: the body has the class 'modal-open';
                      \* navbarHidden: the navbar has 'hidden-up';
                      \* tracking: handleMouseMove is on the document

vars == <<canvas, innerWidth, innerHeight, hidden, theme, particles, shootingStars,
          frameCount, mouse, frameColors, colorCacheFrame, timeouts, rafPending,
          intervals, listeners, painted, lines, glow, forced, clamped, removed,
          nextId, nextStarId, resized, count, loop, colorReadFrame, nav, puzzle, vhs, overlay>>

\* what a canvas shows and what the last frame did
bitmapVars == <<painted, lines, glow, forced, clamped>>

\* the variables a rendered frame writes
frameVars == <<particles, shootingStars, frameCount, frameColors, colorCacheFrame,
               colorReadFrame, bitmapVars, removed>>

\* the variables of the page around the renderer
pageVars == <<innerWidth, innerHeight, hidden, theme>>

\* timers, listeners and frame requests
hostVars == <<timeouts, rafPending, intervals, listeners>>

\* the shelf and the overlays
widgetVars == <<vhs, overlay>>

\* the variables of the constellation
rendererVars == <<canvas, pageVars, frameVars, mouse, hostVars, nextId, nextStarId,
                  resized, count, loop>>

(***************************************************************************)
(* The environment's inputs                                                *)
(***************************************************************************)
\* window sizes <<innerWidth, innerHeight>>: three particles at the mobile
\* density, three at the desktop density, none
Viewports == {<<300, 300>>, <<800, 60>>, <<0, 300>>}

\* the scenarios of the particle count: 32 particles, the same window
\* quartered, both sides of the breakpoint, no area
SizeScenarios == {<<800, 600>>, <<400, 300>>, <<768, 40>>, <<767, 40>>, <<0, 600>>}

\* windows too small for a particle, which a star leaves within few frames
StarViewports == {<<0, 0>>, <<100, 100>>}

\* pointer positions <<clientX, clientY>>: on a particle's place, and near it
PointerPlaces == {<<0, 0>>, <<40, 30>>}

\* streams of Math.random() a batch of particles is drawn from
NumSeeds == 1

\* the five draws of a ShootingStar constructor: entering from the top at
\* the far right, steep and slowly fading, and from the left, flat and
\* quickly fading
StarDraws == {<<0, 999, 999, 500, 0>>, <<500, 500, 0, 0, 999>>}

(***************************************************************************)
(* Functions of initializeConstellation                                    *)
(***************************************************************************)
\* getConstellationColors(): the two colour values of the current theme
getConstellationColors == theme

\* getDensity with the breakpoint itself counted as mobile
getDensityUpToBreakpoint(w) ==
    IF w <= MobileBreakpoint THEN particleDensityMobile ELSE particleDensity

\* getDensity without the mobile branch
getDensityDesktopOnly(w) == particleDensity

\* getDensity(), for window.innerWidth = w
getDensity(w) == IF w < MobileBreakpoint THEN particleDensityMobile ELSE particleDensity

\* createParticles that resets the objects of the old array instead of
\* making new ones
createParticlesReusingObjects(seed, firstId, W, H, w) ==
    [i \in 1..((W * H) \div getDensity(w)) |->
        ParticleReset(i, [k \in 1..6 |-> Draw(seed, i - 1, k)], W, H)]

\* createParticles(): the new array on a W x H canvas, window.innerWidth = w
createParticles(seed, firstId, W, H, w) ==
    [i \in 1..((W * H) \div getDensity(w)) |->
        ParticleReset(firstId + i - 1, [k \in 1..6 |-> Draw(seed, i - 1, k)], W, H)]

\* the particles animate() gives a pointer-glow line (dist < mouseRadius)
GlowLines(ps, m) ==
    IF m.active
    THEN {i \in 1..Len(ps) : Within(ps[i].x - Px(m.x), ps[i].y - Px(m.y), Px(mouseRadius))}
    ELSE {}

\* the stars of a frame without the filter
LiveStarsUnfiltered(stars, W, H) == stars

\* shootingStars.filter(s => !s.isDead())
LiveStars(stars, W, H) == SelectSeq(stars, LAMBDA s : ~isDead(s, W, H))

\* the ids of the stars of a list
StarIds(stars) == {stars[i].id : i \in 1..Len(stars)}

\* getFrameColors() with the pre-increment test: the counter is compared
\* after it is raised
ColorsRefreshedAfterIncrement(ccf) == (ccf + 1) % ColorRefreshFrames = 0

\* getFrameColors(): whether the call with colorCacheFrame = ccf re-reads
\* the colours (colorCacheFrame++ % 60 === 0)
ColorsRefreshed(ccf) == ccf % ColorRefreshFrames = 0

\* the colours a frame draws with: what getFrameColors() returns when the
\* counter is ccf and the cache holds colors
FrameColors(ccf, colors) ==
    IF ColorsRefreshed(ccf) THEN getConstellationColors ELSE colors

\* whether "rgba(" + lineRGB + ", 0)" is a colour: addColorStop() throws a
\* SyntaxError on a string that is none, as with an empty lineRGB
ColorParses(colors) == colors # ""

\* the stars of the forEach whose draw() reaches addColorStop with a string
\* that is no colour
Throwers(live, colors) ==
    {i \in 1..Len(live) : StarPainted(ShootingStarUpdate(live[i])) /\ ~ColorParses(colors)}

\* the first of them, where the frame ends with the exception; 0 if the
\* frame completes
Thrower(live, colors) ==
    IF Throwers(live, colors) = {} THEN 0
    ELSE CHOOSE i \in Throwers(live, colors) : \A j \in Throwers(live, colors) : i <= j

\* whether the frame that starts from these values ends with an exception
\* before its last statement, requestAnimationFrame(animate)
FrameThrows(stars, ccf, colors, W, H) ==
    Thrower(LiveStars(stars, W, H), FrameColors(ccf, colors)) # 0

\* a run of animate recorded in loop
LoopRan(l, isHidden) ==
    [turn |-> 1 - l.turn,
     skipped |-> l.skipped \/ isHidden,
     resumed |-> IF isHidden THEN l.resumed ELSE l.resumed \/ l.skipped]

\* the body of animate() past the document.hidden test, from the values
\* the frame starts with, on a W x H canvas
RenderFrame(ps, stars, fc, ccf, colors, W, H) ==
    LET moved == [i \in 1..Len(ps) |-> ParticleUpdate(ps[i], mouse, W, H, fc + 1)]
        live == LiveStars(stars, W, H)
        last == Thrower(live, FrameColors(ccf, colors))
    IN /\ frameCount' = fc + 1
       /\ colorCacheFrame' = ccf + 1
       /\ frameColors' = FrameColors(ccf, colors)
       /\ colorReadFrame' = IF ColorsRefreshed(ccf) THEN fc + 1 ELSE colorReadFrame
       /\ particles' = moved
       /\ forced' = {i \in 1..Len(ps) : Repelled(ps[i], mouse)}
       /\ clamped' = {i \in 1..Len(ps) : Clamped(ps[i], mouse, W, H)}
       /\ painted' = TRUE
       /\ lines' = connectParticles(moved, W, H)
       /\ glow' = GlowLines(moved, mouse)
       /\ shootingStars' = [i \in 1..Len(live) |->
                               IF last = 0 \/ i <= last
                               THEN ShootingStarUpdate(live[i]) ELSE live[i]]
       /\ removed' = removed \cup (StarIds(stars) \ StarIds(live))

\* setCanvasSize(): assigning canvas.width clears the bitmap
ClearBitmap ==
    /\ painted' = FALSE
    /\ lines' = <<>>
    /\ glow' = {}
    /\ forced' = {}
    /\ clamped' = {}

(***************************************************************************)
(* The bio puzzle (initializePuzzleGame): its closure state and handlers   *)
(***************************************************************************)
\* the structural tiles of #bio-puzzle-grid
PuzzleSlots == 2

\* the clicks on the puzzle button and the grabs of label tiles
MaxMoves == 4

\* the user acts at a timeout or this many ms after the last step of time
TimeStep == 250

\* the delay of the timeout that ends the spawn of the label tiles
ShrinkDelay == 500

\* the delay of the timeout that seats an original tile on its ghost
SeatDelay == 500

\* the delay of puzzleComplete after the last piece has snapped
CompleteDelay == 650

\* finishPuzzle staggers the pieces it flies home by this delay
StaggerDelay == 80

\* finishPuzzle adds this to the staggers for its puzzleComplete
LandDelay == 600

\* the page whose main holds #bio-puzzle-grid
BioPage == "about"

\* a label tile is at the centre of its slot ("home"), falling ("air"), on
\* the floor, fully inside the rectangle of its own ghost ("ghost") or
\* elsewhere under the pointer ("away"); this is where the pointer can take
\* a dragged tile
DragPlaces == {"ghost", "away"}

\* the piece object scatterPuzzle pushes for a slot: its label tile is on
\* document.body and its ghost in the grid
PieceNew(session, slot) ==
    [session |-> session, slot |-> slot, placed |-> FALSE, dragging |-> FALSE,
     pos |-> "home", tile |-> TRUE, ghost |-> TRUE, handlers |-> FALSE]

\* the page before initializePuzzleGame has run: no click handler on the
\* button, no window._puzzleCleanup, every original tile in the flow
NoPuzzle(hasGrid) ==
    [grid |-> hasGrid, handler |-> FALSE, cleanup |-> FALSE, active |-> FALSE,
     label |-> "Puzzle Mode", session |-> 0, endedBy |-> "none",
     pieces |-> {}, objs |-> <<>>,
     orig |-> [s \in 1..PuzzleSlots |-> "flow"],
     tracked |-> FALSE, untracked |-> 0, shrinks |-> 0,
     scrollHandler |-> FALSE, scrolls |-> 0,
     timers |-> <<>>, drags |-> {}, last |-> "none", moves |-> 0, owed |-> 0]

\* initializePuzzleGame(): returns when the document has no
\* #bio-puzzle-grid; else a closure with puzzleActive = false and no
\* pieces, its click handler on the button and its cleanup on window
initializePuzzleGame(pz) ==
    IF ~pz.grid THEN pz
    ELSE [NoPuzzle(TRUE) EXCEPT !.handler = TRUE, !.cleanup = TRUE,
                                !.moves = pz.moves, !.last = "init"]

\* the slots of the pieces in the closure's array
SlotsOf(pz) == {pz.objs[i].slot : i \in pz.pieces}

\* the tiles of the closure's array are removed, their originals reset by
\* resetTileStyle, the ghosts removed, the scroll listener removed,
\* animationId cancelled, and pieces = [] and ghosts = []
PuzzleTornDown(pz, why) ==
    [pz EXCEPT !.active = FALSE,
               !.label = "Puzzle Mode",
               !.endedBy = why,
               !.tracked = FALSE,
               !.scrolls = IF pz.scrollHandler THEN pz.scrolls - 1 ELSE pz.scrolls,
               !.scrollHandler = FALSE,
               !.objs = [i \in DOMAIN pz.objs |->
                            IF i \in pz.pieces
                            THEN [pz.objs[i] EXCEPT !.tile = FALSE, !.ghost = FALSE,
                                                    !.handlers =
                                                        IF why = "cleanup" THEN FALSE ELSE @]
                            ELSE pz.objs[i]],
               !.orig = [s \in 1..PuzzleSlots |->
                            IF s \in SlotsOf(pz) THEN "flow" ELSE pz.orig[s]],
               !.pieces = {}]

\* puzzleComplete()
puzzleComplete(pz) == PuzzleTornDown(pz, "complete")

\* cleanupPuzzleForNav(): "if (!puzzleActive) return;"
cleanupPuzzleForNav(pz) ==
    IF ~pz.active THEN pz ELSE PuzzleTornDown(pz, "cleanup")

\* the head of loadPage: "if (window._puzzleCleanup) {
\* window._puzzleCleanup(); window._puzzleCleanup = null; }"
LoadPageCleanup(pz) ==
    IF pz.cleanup
    THEN [cleanupPuzzleForNav(pz) EXCEPT !.cleanup = FALSE, !.last = "load"]
    ELSE [pz EXCEPT !.last = "load"]

\* main's content is replaced by that of url: the grid of the old content,
\* with its ghosts and its original tiles, leaves the document; the label
\* tiles, children of document.body, stay
ContentReplaced(pz, url) ==
    [pz EXCEPT !.grid = (url = BioPage),
               !.objs = [i \in DOMAIN pz.objs |-> [pz.objs[i] EXCEPT !.ghost = FALSE]],
               !.orig = [s \in 1..PuzzleSlots |-> "flow"],
               !.last = "content"]

\* a timeout of the closure: what it does, the milliseconds left, the
\* piece or the session it was set for
PuzzleTimeout(kind, rem, piece, session) ==
    [kind |-> kind, rem |-> rem, piece |-> piece, session |-> session]

\* where one frame of simulateGravity takes a piece: down, and from the
\* air onto the floor when it is low enough (lands)
Fall(pos, lands) == IF pos = "floor" \/ (pos = "air" /\ lands) THEN "floor" ELSE "air"

\* the pieces simulateGravity moves: "if (p.placed || p.dragging) return;"
Movers(pz) == {i \in pz.pieces : ~pz.objs[i].placed /\ ~pz.objs[i].dragging}

\* simulateGravity(), run by the frame request animationId names
\* ("tracked"), by one it no longer names ("untracked") or called directly
\* ("call"): animationId = anyMoving ? requestAnimationFrame(...) : null
simulateGravity(pz, by, lands) ==
    LET objs2 == [i \in DOMAIN pz.objs |->
                     IF i \in Movers(pz) THEN [pz.objs[i] EXCEPT !.pos = Fall(@, lands)]
                     ELSE pz.objs[i]]
        anyMoving == \E i \in Movers(pz) : objs2[i].pos = "air"
        others == pz.untracked
                  + (IF pz.tracked /\ by # "tracked" THEN 1 ELSE 0)
                  - (IF by = "untracked" THEN 1 ELSE 0)
    IN [pz EXCEPT !.objs = objs2, !.tracked = anyMoving, !.untracked = others]

\* scatterPuzzle(): a ghost and a label tile for every slot, the original
\* hidden, the frame request of the shrink, the 500 ms timeout and the
\* scroll listener
scatterPuzzle(pz) ==
    LET n == Len(pz.objs)
        s == pz.session + 1
    IN [pz EXCEPT !.active = TRUE,
                  !.label = "Finish Puzzle",
                  !.session = s,
                  !.endedBy = "none",
                  !.objs = pz.objs \o [k \in 1..PuzzleSlots |-> PieceNew(s, k)],
                  !.pieces = (n + 1)..(n + PuzzleSlots),
                  !.orig = [k \in 1..PuzzleSlots |-> "hidden"],
                  !.shrinks = pz.shrinks + 1,
                  !.timers = Append(pz.timers, PuzzleTimeout("drop", ShrinkDelay, 0, s)),
                  !.scrollHandler = TRUE,
                  !.scrolls = pz.scrolls + 1]

\* the unplaced pieces of the array, in its order
Unplaced(pz) == {i \in pz.pieces : ~pz.objs[i].placed}

\* the staggered timeouts of finishPuzzle, in the order they are set
RECURSIVE Staggers(_, _, _)
Staggers(pz, left, idx) ==
    IF left = {} THEN <<>>
    ELSE LET i == CHOOSE j \in left : \A k \in left : j <= k
         IN <<PuzzleTimeout("stagger", idx * StaggerDelay, i, pz.session)>>
            \o Staggers(pz, left \ {i}, idx + 1)

\* finishPuzzle(): with no unplaced piece puzzleComplete() at once; else
\* every unplaced piece is marked placed and loses its listeners, flies
\* home after idx * 80 ms, and puzzleComplete is set for n * 80 + 600 ms
finishPuzzle(pz) ==
    LET un == Unplaced(pz)
        stopped == [pz EXCEPT !.tracked = FALSE]
    IN IF un = {} THEN puzzleComplete(stopped)
       ELSE [stopped EXCEPT
                !.objs = [i \in DOMAIN pz.objs |->
                             IF i \in un
                             THEN [pz.objs[i] EXCEPT !.placed = TRUE, !.handlers = FALSE]
                             ELSE pz.objs[i]],
                !.timers = pz.timers \o Staggers(pz, un, 0)
                           \o <<PuzzleTimeout("complete",
                                              Cardinality(un) * StaggerDelay + LandDelay,
                                              0, pz.session)>>]

\* snapPiece without the timeout of puzzleComplete
snapPieceWithoutComplete(pz, i) ==
    [pz EXCEPT !.objs = [pz.objs EXCEPT ![i].placed = TRUE, ![i].handlers = FALSE,
                                        ![i].pos = "ghost"],
               !.timers = Append(pz.timers, PuzzleTimeout("seat", SeatDelay, i, 0)),
               !.owed = IF \A j \in pz.pieces \ {i} : pz.objs[j].placed
                        THEN pz.owed + 1 ELSE pz.owed]

\* snapPiece(piece): placed, without listeners, the seat after 500 ms, and
\* puzzleComplete after 650 ms when every piece of the array is placed
snapPiece(pz, i) ==
    LET objs2 == [pz.objs EXCEPT ![i].placed = TRUE, ![i].handlers = FALSE,
                                 ![i].pos = "ghost"]
        all == \A j \in pz.pieces : objs2[j].placed
    IN [pz EXCEPT !.objs = objs2,
                  !.timers = Append(pz.timers, PuzzleTimeout("seat", SeatDelay, i, 0))
                             \o (IF all
                                 THEN <<PuzzleTimeout("snapped", CompleteDelay, 0,
                                                      pz.session)>>
                                 ELSE <<>>),
                  !.owed = IF all THEN pz.owed + 1 ELSE pz.owed]

\* the seat timeout of piece i: piece.tile.remove() and
\* seatTileOnGhost(piece), which gives the original tile inline styles
\* from the ghost's rectangle
Seat(pz, i) ==
    [pz EXCEPT !.objs[i].tile = FALSE,
               !.orig[pz.objs[i].slot] = "seated"]

\* the 500 ms timeout of scatterPuzzle: the pieces of the array get their
\* listeners and simulateGravity() is called
Drop(pz, lands) ==
    simulateGravity(
        [pz EXCEPT !.objs = [i \in DOMAIN pz.objs |->
                                IF i \in pz.pieces
                                THEN [pz.objs[i] EXCEPT !.handlers = TRUE]
                                ELSE pz.objs[i]]],
        "call", lands)

\* the callback of a timeout
Fired(pz, t, lands) ==
    CASE t.kind = "drop" -> Drop(pz, lands)
      [] t.kind = "seat" -> Seat(pz, t.piece)
      [] t.kind = "stagger" ->
            [pz EXCEPT !.objs[t.piece].pos = "ghost",
                       !.timers = Append(pz.timers,
                                         PuzzleTimeout("seat", SeatDelay, t.piece, 0))]
      [] t.kind = "complete" -> puzzleComplete(pz)
      [] t.kind = "snapped" -> [puzzleComplete(pz) EXCEPT !.owed = pz.owed - 1]

(***************************************************************************)
(* The VHS shelf (initializeVHSShelf): its closure state and handlers      *)
(***************************************************************************)
\* the tapes on the shelf, each with a data-video
NumTapes == 2

\* the clicks on tapes and on the eject button
MaxVhsClicks == 3

\* the delay of insertTape's timeout that loads the video
LoadDelay == 1200

\* the delay of ejectTape's timeout that ends the eject animation
EjectDelay == 400

\* the tapes; 0 stands for null and for the empty container
Tapes == 1..NumTapes

\* the shelf before a click: no current tape, the player hidden, the video
\* container empty
NoTape ==
    [current |-> 0, inserted |-> {}, active |-> FALSE, loading |-> FALSE,
     video |-> 0, timers |-> <<>>, clicks |-> 0, threw |-> FALSE]

\* a timeout of the shelf: "load" or "eject", the milliseconds left, and
\* the tape insertTape was called with
VhsTimeout(kind, rem, tape) == [kind |-> kind, rem |-> rem, tape |-> tape]

\* ejectTape(animate): nothing without a current tape; the iframe is
\* removed; animated, the rest is left to a timeout of 400 ms
ejectTape(v, animate) ==
    IF v.current = 0 THEN v
    ELSE IF animate
         THEN [v EXCEPT !.video = 0, !.loading = TRUE,
                        !.timers = Append(v.timers, VhsTimeout("eject", EjectDelay, 0))]
         ELSE [v EXCEPT !.video = 0, !.active = FALSE, !.loading = FALSE,
                        !.inserted = v.inserted \ {v.current}, !.current = 0]

\* insertTape without the removal of 'inserted' from the tape before
insertTapeKeepingClass(v, tape) ==
    IF v.current = tape THEN ejectTape(v, TRUE)
    ELSE [v EXCEPT !.current = tape,
                   !.inserted = v.inserted \cup {tape},
                   !.active = TRUE, !.loading = TRUE,
                   !.timers = Append(v.timers, VhsTimeout("load", LoadDelay, tape))]

\* insertTape(tape): the current tape again ejects it; else the tape
\* replaces the current one, the player shows its loading state and the
\* video is left to a timeout of 1200 ms
insertTape(v, tape) ==
    IF v.current = tape THEN ejectTape(v, TRUE)
    ELSE [v EXCEPT !.current = tape,
                   !.inserted = (v.inserted \ {v.current}) \cup {tape},
                   !.active = TRUE, !.loading = TRUE,
                   !.timers = Append(v.timers, VhsTimeout("load", LoadDelay, tape))]

\* the callback of insertTape's timeout: the iframe of the tape it was set
\* for is put into the container
VideoLoaded(v, tape) == [v EXCEPT !.loading = FALSE, !.video = tape]

\* the callback of ejectTape's timeout: the player is hidden, then
\* currentTape.classList is read: a TypeError when currentTape is null
EjectEnded(v) ==
    IF v.current = 0
    THEN [v EXCEPT !.active = FALSE, !.loading = FALSE, !.threw = TRUE]
    ELSE [v EXCEPT !.active = FALSE, !.loading = FALSE,
                   !.inserted = v.inserted \ {v.current}, !.current = 0]

(***************************************************************************)
(* The overlays: hamburger menu, portfolio modal, album lightbox           *)
(***************************************************************************)
\* the page before its scripts run: nothing open, no listener on the
\* hamburger
NoOverlay ==
    [toggles |-> 0, hamburger |-> FALSE, menu |-> FALSE, modal |-> FALSE,
     lightbox |-> FALSE, body |-> FALSE, navbarHidden |-> FALSE, tracking |-> FALSE]

\* toggleMenu: 'active' of the hamburger and of the menu and 'modal-open'
\* of the body are toggled
toggleMenu(o) ==
    [o EXCEPT !.hamburger = ~o.hamburger, !.menu = ~o.menu, !.body = ~o.body]

\* closeMenu: with the menu open, all three classes are removed
closeMenu(o) ==
    IF o.menu THEN [o EXCEPT !.hamburger = FALSE, !.menu = FALSE, !.body = FALSE]
    ELSE o

\* the click listeners of the hamburger, one toggleMenu for every run of
\* initializeHamburgerMenu
RECURSIVE Toggled(_, _)
Toggled(o, n) == IF n = 0 THEN o ELSE Toggled(toggleMenu(o), n - 1)

\* openModal(clickedTile) on a tile of a visible section
openModal(o) ==
    [o EXCEPT !.body = TRUE, !.modal = TRUE, !.navbarHidden = TRUE, !.tracking = TRUE]

\* closeModal()
closeModal(o) ==
    [o EXCEPT !.body = FALSE, !.modal = FALSE, !.navbarHidden = FALSE, !.tracking = FALSE]

\* handleMouseMove: the navbar shows while the pointer is above
\* navbarHideThreshold
handleMouseMove(o, above) == [o EXCEPT !.navbarHidden = ~above]

\* openAlbumLightbox(deck) on a deck with cards
openAlbumLightbox(o) ==
    [o EXCEPT !.body = TRUE, !.lightbox = TRUE, !.navbarHidden = TRUE]

\* closeLightbox()
closeLightbox(o) ==
    [o EXCEPT !.lightbox = FALSE, !.body = FALSE, !.navbarHidden = FALSE]

(***************************************************************************)
(* Initial state: the page is loaded and the script has not run            *)
(***************************************************************************)
InitOn(sizes, page) ==
    /\ canvas \in {[present |-> b, initialized |-> FALSE, width |-> 300, height |-> 150] :
                      b \in BOOLEAN}
    /\ \E s \in sizes : innerWidth = s[1] /\ innerHeight = s[2]
    /\ hidden = FALSE
    /\ theme = "dark"
    /\ particles = <<>>
    /\ shootingStars = <<>>
    /\ frameCount = 0
    /\ mouse = [x |-> -1000, y |-> -1000, active |-> FALSE]
    /\ frameColors = "none"
    /\ colorCacheFrame = 0
    /\ timeouts = <<>>
    /\ rafPending = 0
    /\ intervals = 0
    /\ listeners = [mousemove |-> 0, mouseleave |-> 0, resize |-> 0]
    /\ painted = FALSE
    /\ lines = <<>>
    /\ glow = {}
    /\ forced = {}
    /\ clamped = {}
    /\ removed = {}
    /\ nextId = 1
    /\ nextStarId = 1
    /\ resized = [since |-> ResizeDelay, runs |-> 0, from |-> <<>>, turn |-> 0]
    /\ count = [signals |-> 0, runs |-> 0, spawnTicks |-> 0, pointer |-> 0,
                visibility |-> 0, guarded |-> 0,
                hiddenTicks |-> 0, styles |-> 0]
    /\ loop = [turn |-> 0, skipped |-> FALSE, resumed |-> FALSE]
    /\ colorReadFrame = 0
    /\ nav = [main |-> page, title |-> page, leaving |-> FALSE,
              active |-> page, loads |-> <<>>, failed |-> FALSE]
    /\ puzzle = NoPuzzle(page = BioPage)
    /\ vhs = NoTape
    /\ overlay = NoOverlay

\* the site opened on its home page
InitWith(sizes) == InitOn(sizes, "index")

Init == InitWith(Viewports)

(***************************************************************************)
(* Actions: one per handler of the script, and the passing of time         *)
(***************************************************************************)
\* one more, up to the bound on the events
Counted(n) == Min(MaxEvents, n + 1)

\* the events of the environment so far
Events ==
    count.signals + count.spawnTicks + count.pointer + count.visibility + count.guarded
    + count.styles

\* the environment has an event left
Budget == Events < MaxEvents

\* initializeHamburgerMenu(): one more toggleMenu listener on the
\* hamburger and one more closeMenu listener on every nav link
initializeHamburgerMenu(o) == [o EXCEPT !.toggles = Counted(o.toggles)]

\* the guards without the test of the canvas
ReturnsAtGuardWithoutCanvasTest(c) == c.initialized

\* the guards without the test of dataset.initialized
ReturnsAtGuardWithoutFlag(c) == ~c.present

\* "if (!canvas) return;" and "if (canvas.dataset.initialized) return;"
ReturnsAtGuard(c) == ~c.present \/ c.initialized

\* initializeConstellation(), its effect on everything but nav: it returns
\* at once without the canvas or on an initialized one; else it sizes the
\* canvas, registers the listeners, makes the particles, starts the
\* interval timer and calls animate()
InitializeRenderer ==
    \/ /\ ReturnsAtGuard(canvas)
       /\ count' = [count EXCEPT !.guarded = Counted(@)]
       /\ UNCHANGED <<canvas, pageVars, frameVars, mouse, hostVars, nextId,
                      nextStarId, resized, loop>>
    \/ /\ ~ReturnsAtGuard(canvas)
       /\ canvas' = [canvas EXCEPT !.initialized = TRUE, !.width = innerWidth,
                                   !.height = innerHeight]
       /\ listeners' = [mousemove |-> listeners.mousemove + 1,
                        mouseleave |-> listeners.mouseleave + 1,
                        resize |-> listeners.resize + 1]
       /\ intervals' = intervals + 1
       /\ rafPending' = rafPending + 1
       /\ loop' = LoopRan(loop, hidden)
       /\ \E seed \in 0..(NumSeeds - 1) :
            LET made == createParticles(seed, nextId, innerWidth, innerHeight, innerWidth)
            IN /\ nextId' = nextId + Len(made)
               /\ IF hidden
                  THEN /\ particles' = made
                       /\ frameColors' = getConstellationColors
                       /\ ClearBitmap
                       /\ UNCHANGED <<shootingStars, frameCount, colorCacheFrame,
                                      colorReadFrame, removed>>
                  ELSE RenderFrame(made, shootingStars, frameCount, colorCacheFrame,
                                   getConstellationColors, innerWidth, innerHeight)
       /\ UNCHANGED <<pageVars, mouse, timeouts, nextStarId, resized, count>>

\* initializePageScripts(): initializeConstellation() and
\* initializePuzzleGame()
initializeConstellation ==
    /\ Budget \/ ~ReturnsAtGuard(canvas)
    /\ InitializeRenderer
    /\ puzzle' = initializePuzzleGame(puzzle)
    /\ overlay' = initializeHamburgerMenu(overlay)
    /\ UNCHANGED <<nav, vhs>>

\* the mousemove listener
PointerMove(pt) ==
    /\ listeners.mousemove > 0
    /\ mouse' = [x |-> pt[1], y |-> pt[2], active |-> TRUE]
    /\ count' = [count EXCEPT !.pointer = Counted(@)]
    /\ UNCHANGED <<canvas, pageVars, frameVars, hostVars, nextId, nextStarId, resized,
                   loop, nav, puzzle, widgetVars>>

\* the mouseleave listener
PointerLeave ==
    /\ listeners.mouseleave > 0
    /\ mouse' = [mouse EXCEPT !.active = FALSE]
    /\ count' = [count EXCEPT !.pointer = Counted(@)]
    /\ UNCHANGED <<canvas, pageVars, frameVars, hostVars, nextId, nextStarId, resized,
                   loop, nav, puzzle, widgetVars>>

\* debounce without clearTimeout: the earlier timeout stays pending
debounceWithoutClear(pending, delay) ==
    Append([k \in 1..Len(pending) |-> [pending[k] EXCEPT !.current = FALSE]],
           [rem |-> delay, current |-> TRUE])

\* debounce's closure: clearTimeout(timer); timer = setTimeout(..., delay)
debounce(pending, delay) ==
    Append(SelectSeq(pending, LAMBDA t : ~t.current), [rem |-> delay, current |-> TRUE])

\* the window is resized to size and the resize listener (handleResize) runs
ResizeSignal(size) ==
    /\ listeners.resize > 0
    /\ size # <<innerWidth, innerHeight>>
    /\ innerWidth' = size[1]
    /\ innerHeight' = size[2]
    /\ timeouts' = debounce(timeouts, ResizeDelay)
    /\ resized' = [resized EXCEPT !.since = 0, !.runs = 0, !.turn = 1 - @]
    /\ count' = [count EXCEPT !.signals = Counted(@)]
    /\ UNCHANGED <<canvas, hidden, theme, frameVars, mouse, rafPending, intervals,
                   listeners, nextId, nextStarId, loop, nav, puzzle, widgetVars>>

\* TickMs milliseconds pass
Tick ==
    /\ timeouts' = [k \in 1..Len(timeouts) |->
                       [timeouts[k] EXCEPT !.rem = Max(0, @ - TickMs)]]
    /\ resized' = [resized EXCEPT !.since = Min(ResizeDelay, @ + TickMs)]
    /\ UNCHANGED <<canvas, pageVars, frameVars, mouse, rafPending, intervals,
                   listeners, nextId, nextStarId, count, loop, nav, puzzle, widgetVars>>

\* seq without its k-th element
RemoveAt(seq, k) ==
    [j \in 1..(Len(seq) - 1) |-> IF j < k THEN seq[j] ELSE seq[j + 1]]

\* the k-th pending timeout is due and its callback runs the debounced
\* function: setCanvasSize(); createParticles()
ResizeTimeout(k) ==
    /\ k \in 1..Len(timeouts)
    /\ timeouts[k].rem = 0
    /\ timeouts' = RemoveAt(timeouts, k)
    /\ canvas' = [canvas EXCEPT !.width = innerWidth, !.height = innerHeight]
    /\ ClearBitmap
    /\ \E seed \in 0..(NumSeeds - 1) :
         /\ particles' = createParticles(seed, nextId, innerWidth, innerHeight, innerWidth)
         /\ nextId' = nextId + Len(particles')
    /\ resized' = [resized EXCEPT !.runs = Min(2, @ + 1),
                                  !.from = <<canvas.width, canvas.height>>]
    /\ count' = [count EXCEPT !.runs = Counted(@)]
    /\ UNCHANGED <<pageVars, shootingStars, frameCount, frameColors, colorCacheFrame,
                   colorReadFrame, removed, mouse, rafPending, intervals, listeners,
                   nextStarId, loop, nav, puzzle, widgetVars>>

\* the test of the callback without document.hidden
SpawnsWhileHidden(isHidden, chance) == chance < SpawnChance

\* "!document.hidden && Math.random() < 0.7"
Spawns(isHidden, chance) == ~isHidden /\ chance < SpawnChance

\* the spawn callback assigning a list of the new star alone
SpawnTickLosingStars ==
    /\ intervals > 0
    /\ count' = [count EXCEPT !.spawnTicks = Counted(@),
                               !.hiddenTicks = IF hidden THEN Counted(@) ELSE @]
    /\ \E chance \in {0, 999}, d \in StarDraws :
         IF Spawns(hidden, chance)
         THEN /\ shootingStars' = Append(<<>>,
                    ShootingStarNew(nextStarId, d, canvas.width, canvas.height))
              /\ nextStarId' = nextStarId + 1
         ELSE UNCHANGED <<shootingStars, nextStarId>>
    /\ UNCHANGED <<canvas, pageVars, particles, frameCount, frameColors,
                   colorCacheFrame, colorReadFrame, bitmapVars, removed, mouse,
                   hostVars, nextId, resized, loop, nav, puzzle, widgetVars>>

\* the callback of setInterval(..., shootingStarInterval): one draw decides
\* whether a star is pushed, five more make the star
SpawnTick ==
    /\ intervals > 0
    /\ count' = [count EXCEPT !.spawnTicks = Counted(@),
                               !.hiddenTicks = IF hidden THEN Counted(@) ELSE @]
    /\ \E chance \in {0, 999}, d \in StarDraws :
         IF Spawns(hidden, chance)
         THEN /\ shootingStars' = Append(shootingStars,
                    ShootingStarNew(nextStarId, d, canvas.width, canvas.height))
              /\ nextStarId' = nextStarId + 1
         ELSE UNCHANGED <<shootingStars, nextStarId>>
    /\ UNCHANGED <<canvas, pageVars, particles, frameCount, frameColors,
                   colorCacheFrame, colorReadFrame, bitmapVars, removed, mouse,
                   hostVars, nextId, resized, loop, nav, puzzle, widgetVars>>

\* the tab is hidden or shown
VisibilityChange ==
    /\ hidden' = ~hidden
    /\ count' = [count EXCEPT !.visibility = Counted(@)]
    /\ loop' = IF hidden THEN loop
               ELSE [loop EXCEPT !.skipped = FALSE, !.resumed = FALSE]
    /\ UNCHANGED <<canvas, innerWidth, innerHeight, theme, frameVars, mouse, hostVars,
                   nextId, nextStarId, resized, nav, puzzle, widgetVars>>

\* the click listener of the theme toggle: data-theme goes from dark to
\* light or back, and the style gives the colours of the new theme
ThemeToggle ==
    /\ theme' = IF theme = "dark" THEN "light"
                ELSE IF theme = "light" THEN "dark" ELSE theme
    /\ count' = [count EXCEPT !.styles = Counted(@)]
    /\ UNCHANGED <<canvas, innerWidth, innerHeight, hidden, frameVars, mouse, hostVars,
                   nextId, nextStarId, resized, loop, nav, puzzle, widgetVars>>

\* the style stops giving the two colour variables (the stylesheet that
\* defines them is not applied): getPropertyValue() returns ""
StyleLost ==
    /\ theme # ""
    /\ theme' = ""
    /\ count' = [count EXCEPT !.styles = Counted(@)]
    /\ UNCHANGED <<canvas, innerWidth, innerHeight, hidden, frameVars, mouse, hostVars,
                   nextId, nextStarId, resized, loop, nav, puzzle, widgetVars>>

\* animate without the test of document.hidden
animateUpToWithoutHiddenTest(limit) ==
    /\ rafPending > 0
    /\ frameCount < limit
    /\ RenderFrame(particles, shootingStars, frameCount, colorCacheFrame,
                   frameColors, canvas.width, canvas.height)
    /\ rafPending' = (rafPending - 1) + 1
    /\ loop' = LoopRan(loop, hidden)
    /\ UNCHANGED <<canvas, pageVars, mouse, timeouts, intervals, listeners,
                   nextId, nextStarId, resized, count, nav, puzzle, widgetVars>>

\* animate(), called back for one of the outstanding frame requests: while
\* the document is hidden it only requests the next frame, else it renders
\* a frame and requests the next one; at most limit frames are rendered
animateUpTo(limit) ==
    /\ rafPending > 0
    /\ \/ /\ hidden
          /\ rafPending' = (rafPending - 1) + 1
          /\ loop' = LoopRan(loop, TRUE)
          /\ UNCHANGED <<canvas, pageVars, frameVars, mouse, timeouts, intervals,
                         listeners, nextId, nextStarId, resized, count, nav, puzzle, widgetVars>>
       \/ /\ ~hidden
          /\ frameCount < limit
          /\ RenderFrame(particles, shootingStars, frameCount, colorCacheFrame,
                         frameColors, canvas.width, canvas.height)
          /\ rafPending' = IF FrameThrows(shootingStars, colorCacheFrame, frameColors,
                                          canvas.width, canvas.height)
                           THEN rafPending - 1
                           ELSE (rafPending - 1) + 1
          /\ loop' = LoopRan(loop, FALSE)
          /\ UNCHANGED <<canvas, pageVars, mouse, timeouts, intervals, listeners,
                         nextId, nextStarId, resized, count, nav, puzzle, widgetVars>>

animate == animateUpTo(MaxFrames)

(***************************************************************************)
(* Spec: the renderer under every input                                    *)
(***************************************************************************)
Next ==
    \/ initializeConstellation
    \/ \E pt \in PointerPlaces : Budget /\ PointerMove(pt)
    \/ Budget /\ PointerLeave
    \/ \E size \in Viewports : Budget /\ ResizeSignal(size)
    \/ Tick
    \/ \E k \in 1..Len(timeouts) : ResizeTimeout(k)
    \/ Budget /\ SpawnTick
    \/ Budget /\ VisibilityChange
    \/ animate

Spec == Init /\ [][Next]_vars

(***************************************************************************)
(* SpecSizes: initialization and resizes over the scenarios of the count   *)
(***************************************************************************)
SizesInit == InitWith(SizeScenarios)

SizesNext ==
    \/ initializeConstellation
    \/ \E size \in SizeScenarios : Budget /\ ResizeSignal(size)
    \/ Tick
    \/ \E k \in 1..Len(timeouts) : ResizeTimeout(k)
    \/ animate

SpecSizes == SizesInit /\ [][SizesNext]_vars

(***************************************************************************)
(* SpecStars: the life of shooting stars, on canvases without particles    *)
(***************************************************************************)
\* rendered frames, enough for a star to leave a canvas and be filtered
StarFrames == 8

StarsInit == InitWith(StarViewports)

StarsNext ==
    \/ initializeConstellation
    \/ \E size \in StarViewports : Budget /\ ResizeSignal(size)
    \/ Tick
    \/ \E k \in 1..Len(timeouts) : ResizeTimeout(k)
    \/ Budget /\ SpawnTick
    \/ animateUpTo(StarFrames)

SpecStars == StarsInit /\ [][StarsNext]_vars

(***************************************************************************)
(* SpecColors: the colour cache over more than sixty frames of an empty    *)
(* canvas, with the theme toggled                                          *)
(***************************************************************************)
\* rendered frames, past the third reading of the colours
ColorFrames == 122

\* a window without width: a canvas without particles
ColorViewports == {<<0, 300>>}

ColorsInit == InitWith(ColorViewports)

ColorsNext ==
    \/ initializeConstellation
    \/ Budget /\ ThemeToggle
    \/ Budget /\ VisibilityChange
    \/ animateUpTo(ColorFrames)

SpecColors == ColorsInit /\ [][ColorsNext]_vars

(***************************************************************************)
(* SpecFaults: frames with shooting stars when the style gives no colours  *)
(***************************************************************************)
FaultsInit == InitWith(StarViewports)

FaultsNext ==
    \/ initializeConstellation
    \/ Budget /\ StyleLost
    \/ Budget /\ VisibilityChange
    \/ Budget /\ SpawnTick
    \/ animateUpTo(StarFrames)

SpecFaults == FaultsInit /\ [][FaultsNext]_vars

(***************************************************************************)
(* SpecNav: page loads of the single-page navigation, several in flight    *)
(***************************************************************************)
\* loadPage calls
MaxLoads == 3

\* the pages of the nav links
Pages == {"index", "about", "portfolio"}

\* what a fetch and the parse of its text give: a document with a main
\* element and a title, a document without main, or an exception
Fetched == {"ok", "nomain", "throws"}

\* setupPage() has run: its listeners are registered and it has called
\* initializePageScripts(), and with it initializeConstellation(), once
PageSetUp == canvas.initialized \/ count.guarded > 0

\* loadPage(url) up to its return: main gets 'is-leaving' and the timeout
\* of the page transition is set
loadPage(url) ==
    [nav EXCEPT !.leaving = TRUE,
                !.loads = Append(@, [url |-> url, phase |-> "timer"])]

\* the click listeners of the nav menu and of the link of url: nothing on
\* the active link; else pushState, movePill and loadPage, and closeMenu
NavClick(url) ==
    /\ PageSetUp
    /\ Len(nav.loads) < MaxLoads
    /\ url # nav.active
    /\ ~overlay.navbarHidden
    /\ nav' = [loadPage(url) EXCEPT !.active = url]
    /\ puzzle' = LoadPageCleanup(puzzle)
    /\ overlay' = closeMenu(overlay)
    /\ UNCHANGED <<rendererVars, vhs>>

\* the popstate listener when the location is the page of a nav link:
\* movePill and loadPage, on the active link too
PopState(url) ==
    /\ PageSetUp
    /\ Len(nav.loads) < MaxLoads
    /\ nav' = [loadPage(url) EXCEPT !.active = url]
    /\ puzzle' = LoadPageCleanup(puzzle)
    /\ UNCHANGED <<rendererVars, widgetVars>>

\* the loads whose timeout has not fired
Waiting == {k \in 1..Len(nav.loads) : nav.loads[k].phase = "timer"}

\* the timeout of a load fires, the timeouts in the order they were set
\* (all have the delay pageTransition): fetch(url) starts
LoadTimer(k) ==
    /\ k \in Waiting
    /\ \A j \in Waiting : k <= j
    /\ nav' = [nav EXCEPT !.loads[k].phase = "fetch"]
    /\ UNCHANGED <<rendererVars, puzzle, widgetVars>>

\* the fetch of load k has ended and the rest of the timeout's callback
\* runs: with a main in the document the title and the content of main are
\* replaced, main's class becomes that of the new main,
\* initializePageScripts() runs and 'is-leaving' is removed; without one
\* nothing is done; an exception removes 'is-leaving'; then resolve()
FetchDone(k, got) ==
    /\ k \in 1..Len(nav.loads)
    /\ nav.loads[k].phase = "fetch"
    /\ IF got = "ok"
       THEN /\ nav' = [nav EXCEPT !.title = nav.loads[k].url,
                                  !.main = nav.loads[k].url,
                                  !.leaving = FALSE,
                                  !.loads[k].phase = "resolved"]
            /\ InitializeRenderer
            /\ puzzle' = initializePuzzleGame(ContentReplaced(puzzle, nav.loads[k].url))
            /\ overlay' = initializeHamburgerMenu(overlay)
            /\ UNCHANGED vhs
       ELSE /\ nav' = [nav EXCEPT !.leaving = IF got = "throws" THEN FALSE ELSE @,
                                  !.failed = TRUE,
                                  !.loads[k].phase = "resolved"]
            /\ UNCHANGED <<rendererVars, puzzle, widgetVars>>

NavInit == InitWith(ColorViewports)

NavNext ==
    \/ initializeConstellation
    \/ \E url \in Pages : NavClick(url)
    \/ \E url \in Pages : PopState(url)
    \/ \E k \in 1..Len(nav.loads) : LoadTimer(k)
    \/ \E k \in 1..Len(nav.loads), got \in Fetched : FetchDone(k, got)

SpecNav == NavInit /\ [][NavNext]_vars

(***************************************************************************)
(* SpecPuzzle: the bio page with its puzzle, the user's clicks and drags,  *)
(* the timeouts and frame requests of the closure, and navigation away     *)
(***************************************************************************)
\* the variables the puzzle's handlers leave alone
siteVars == <<rendererVars, nav, widgetVars>>

\* handlePuzzleClick on the visible button: finishPuzzle() when
\* puzzleActive, else scatterPuzzle()
PuzzleClick ==
    /\ puzzle.handler
    /\ puzzle.grid
    /\ puzzle.moves < MaxMoves
    /\ puzzle' = [(IF puzzle.active THEN finishPuzzle(puzzle) ELSE scatterPuzzle(puzzle))
                  EXCEPT !.moves = puzzle.moves + 1,
                         !.last = IF puzzle.active THEN "finish" ELSE "scatter"]
    /\ UNCHANGED siteVars

\* the frame request of scatterPuzzle: the tiles of the array are put at
\* the centres of their slots
ShrinkFrame ==
    /\ puzzle.shrinks > 0
    /\ puzzle' = [puzzle EXCEPT !.shrinks = puzzle.shrinks - 1,
                                !.objs = [i \in DOMAIN puzzle.objs |->
                                             IF i \in puzzle.pieces
                                             THEN [puzzle.objs[i] EXCEPT !.pos = "home"]
                                             ELSE puzzle.objs[i]],
                                !.last = "shrink"]
    /\ UNCHANGED siteVars

\* a frame request of the physics runs simulateGravity
GravityFrame(by, lands) ==
    /\ \/ by = "tracked" /\ puzzle.tracked
       \/ by = "untracked" /\ puzzle.untracked > 0
    /\ puzzle' = [simulateGravity(puzzle, by, lands) EXCEPT !.last = "gravity"]
    /\ UNCHANGED siteVars

\* the timeouts that are due
Due == {k \in 1..Len(puzzle.timers) : puzzle.timers[k].rem = 0}

\* a sequence without its k-th element
Without(seq, k) == SubSeq(seq, 1, k - 1) \o SubSeq(seq, k + 1, Len(seq))

\* the first of the due timeouts fires
PuzzleTimer(lands) ==
    /\ Due # {}
    /\ LET k == CHOOSE j \in Due : \A d \in Due : j <= d
           t == puzzle.timers[k]
       IN puzzle' = [Fired([puzzle EXCEPT !.timers = Without(puzzle.timers, k)], t, lands)
                     EXCEPT !.last = t.kind]
    /\ UNCHANGED siteVars

\* the milliseconds to the next timeout
NextDue ==
    CHOOSE r \in {puzzle.timers[k].rem : k \in 1..Len(puzzle.timers)} :
        \A k \in 1..Len(puzzle.timers) : r <= puzzle.timers[k].rem

\* time passes, up to the next timeout or TimeStep ms of the way to it
PassTime(d) ==
    /\ puzzle.timers # <<>>
    /\ Due = {}
    /\ d = NextDue \/ (d = TimeStep /\ d < NextDue)
    /\ puzzle' = [puzzle EXCEPT !.timers = [k \in 1..Len(puzzle.timers) |->
                                               [puzzle.timers[k] EXCEPT !.rem = @ - d]],
                                !.last = "time"]
    /\ UNCHANGED siteVars

\* startDrag on a label tile: "if (piece.placed) return;", dragging, the
\* physics request cancelled, and onMove and onUp on the document
StartDrag(i) ==
    /\ i \in DOMAIN puzzle.objs
    /\ puzzle.objs[i].handlers /\ puzzle.objs[i].tile
    /\ ~puzzle.objs[i].placed
    /\ puzzle.drags = {}
    /\ puzzle.moves < MaxMoves
    /\ puzzle' = [puzzle EXCEPT !.objs[i].dragging = TRUE,
                                !.tracked = FALSE,
                                !.drags = {i},
                                !.moves = puzzle.moves + 1,
                                !.last = "grab"]
    /\ UNCHANGED siteVars

\* onMove: the piece follows the pointer
OnMove(i, where) ==
    /\ i \in puzzle.drags
    /\ where \in DragPlaces
    /\ puzzle.objs[i].pos # where
    /\ puzzle' = [puzzle EXCEPT !.objs[i].pos = where, !.last = "move"]
    /\ UNCHANGED siteVars

\* "inside": the tile lies fully inside the rectangle of its ghost; a ghost
\* out of the document has an empty rectangle, which holds no tile
Inside(pz, i) == pz.objs[i].pos = "ghost" /\ pz.objs[i].ghost

\* onUp: the listeners leave the document; inside the ghost snapPiece,
\* else the piece gets a velocity and simulateGravity() is called unless
\* animationId names a request
OnUp(i, lands) ==
    /\ i \in puzzle.drags
    /\ LET let == [puzzle EXCEPT !.objs[i].dragging = FALSE, !.drags = {}]
       IN puzzle' = [(IF Inside(puzzle, i) THEN snapPiece(let, i)
                      ELSE IF ~puzzle.tracked THEN simulateGravity(let, "call", lands)
                      ELSE let)
                     EXCEPT !.last = "release"]
    /\ UNCHANGED siteVars

\* setupPage() when the document is ready
SetupPage == ~PageSetUp /\ initializeConstellation

\* the bio page is open and the script has not run
PuzzleInit == InitOn(ColorViewports, BioPage)

PuzzleNext ==
    \/ SetupPage
    \/ PuzzleClick
    \/ ShrinkFrame
    \/ \E by \in {"tracked", "untracked"}, lands \in BOOLEAN : GravityFrame(by, lands)
    \/ \E lands \in BOOLEAN : PuzzleTimer(lands)
    \/ \E d \in {TimeStep} \cup {puzzle.timers[k].rem : k \in 1..Len(puzzle.timers)} :
          PassTime(d)
    \/ \E i \in DOMAIN puzzle.objs : StartDrag(i)
    \/ \E i \in puzzle.drags, where \in DragPlaces : OnMove(i, where)
    \/ \E i \in puzzle.drags, lands \in BOOLEAN : OnUp(i, lands)

SpecPuzzle == PuzzleInit /\ [][PuzzleNext]_vars

\* the browser lets time pass and runs the timeouts that are due
PuzzleFairness ==
    /\ WF_vars(\E d \in {TimeStep} \cup {puzzle.timers[k].rem : k \in 1..Len(puzzle.timers)} :
                  PassTime(d))
    /\ WF_vars(\E lands \in BOOLEAN : PuzzleTimer(lands))

\* the steps of one session of the puzzle: no scatterPuzzle after the first
LivePuzzleNext ==
    \/ SetupPage
    \/ (puzzle.session = 0 \/ puzzle.active) /\ PuzzleClick
    \/ ShrinkFrame
    \/ \E by \in {"tracked", "untracked"}, lands \in BOOLEAN : GravityFrame(by, lands)
    \/ \E lands \in BOOLEAN : PuzzleTimer(lands)
    \/ \E d \in {TimeStep} \cup {puzzle.timers[k].rem : k \in 1..Len(puzzle.timers)} :
          PassTime(d)
    \/ \E i \in DOMAIN puzzle.objs : StartDrag(i)
    \/ \E i \in puzzle.drags, where \in DragPlaces : OnMove(i, where)
    \/ \E i \in puzzle.drags, lands \in BOOLEAN : OnUp(i, lands)

LiveSpecPuzzle == PuzzleInit /\ [][LivePuzzleNext]_vars /\ PuzzleFairness

\* loadPage calls beside the puzzle
PuzzleLoads == 2

\* no load is in flight
LoadsResolved == \A k \in 1..Len(nav.loads) : nav.loads[k].phase = "resolved"

\* SpecPuzzleNav: one session of the puzzle of the bio page and navigation
\* to the other pages of the site, a nav link clicked when the load before
\* has ended
PuzzleNavNext ==
    \/ SetupPage
    \/ (puzzle.session = 0 \/ puzzle.active) /\ PuzzleClick
    \/ ShrinkFrame
    \/ \E by \in {"tracked", "untracked"}, lands \in BOOLEAN : GravityFrame(by, lands)
    \/ \E lands \in BOOLEAN : PuzzleTimer(lands)
    \/ \E d \in {puzzle.timers[k].rem : k \in 1..Len(puzzle.timers)} : PassTime(d)
    \/ \E i \in DOMAIN puzzle.objs : StartDrag(i)
    \/ \E i \in puzzle.drags, where \in DragPlaces : OnMove(i, where)
    \/ \E i \in puzzle.drags, lands \in BOOLEAN : OnUp(i, lands)
    \/ \E url \in Pages \ {BioPage} :
          LoadsResolved /\ Len(nav.loads) < PuzzleLoads /\ NavClick(url)
    \/ \E k \in 1..Len(nav.loads) : LoadTimer(k)
    \/ \E k \in 1..Len(nav.loads), got \in Fetched : FetchDone(k, got)

SpecPuzzleNav == PuzzleInit /\ [][PuzzleNavNext]_vars

(***************************************************************************)
(* SpecVhs: a page with the VHS shelf, clicks on tapes and on the eject    *)
(* button, and the timeouts of insertTape and ejectTape                    *)
(***************************************************************************)
\* the variables the shelf's handlers leave alone
shelfVars == <<rendererVars, nav, puzzle, overlay>>

\* the click listener of a tape
TapeClick(tape) ==
    /\ PageSetUp
    /\ vhs.clicks < MaxVhsClicks
    /\ vhs' = [insertTape(vhs, tape) EXCEPT !.clicks = vhs.clicks + 1]
    /\ UNCHANGED shelfVars

\* the click listener of the eject button
EjectClick ==
    /\ PageSetUp
    /\ vhs.clicks < MaxVhsClicks
    /\ vhs' = [ejectTape(vhs, TRUE) EXCEPT !.clicks = vhs.clicks + 1]
    /\ UNCHANGED shelfVars

\* the timeouts of the shelf that are due
VhsDue == {k \in 1..Len(vhs.timers) : vhs.timers[k].rem = 0}

\* the first of the due timeouts fires
VhsTimer ==
    /\ VhsDue # {}
    /\ LET k == CHOOSE j \in VhsDue : \A d \in VhsDue : j <= d
           t == vhs.timers[k]
           rest == [vhs EXCEPT !.timers = Without(vhs.timers, k)]
       IN vhs' = IF t.kind = "load" THEN VideoLoaded(rest, t.tape) ELSE EjectEnded(rest)
    /\ UNCHANGED shelfVars

\* the milliseconds to the next timeout of the shelf
VhsNextDue ==
    CHOOSE r \in {vhs.timers[k].rem : k \in 1..Len(vhs.timers)} :
        \A k \in 1..Len(vhs.timers) : r <= vhs.timers[k].rem

\* time passes, up to the next timeout or TimeStep ms of the way to it
VhsPassTime(d) ==
    /\ vhs.timers # <<>>
    /\ VhsDue = {}
    /\ d = VhsNextDue \/ (d = TimeStep /\ d < VhsNextDue)
    /\ vhs' = [vhs EXCEPT !.timers = [k \in 1..Len(vhs.timers) |->
                                         [vhs.timers[k] EXCEPT !.rem = @ - d]]]
    /\ UNCHANGED shelfVars

VhsInit == InitWith(ColorViewports)

VhsNext ==
    \/ SetupPage
    \/ \E tape \in Tapes : TapeClick(tape)
    \/ EjectClick
    \/ VhsTimer
    \/ \E d \in {TimeStep} \cup {vhs.timers[k].rem : k \in 1..Len(vhs.timers)} :
          VhsPassTime(d)

SpecVhs == VhsInit /\ [][VhsNext]_vars

(***************************************************************************)
(* SpecOverlay: the hamburger menu, the portfolio modal and the album      *)
(* lightbox, opened and closed in any order, and page loads                *)
(***************************************************************************)
\* the variables the overlays' handlers leave alone
pageStateVars == <<rendererVars, nav, puzzle, vhs>>

\* the mousemove listener of the modal
ModalMouseMove(above) ==
    /\ overlay.tracking
    /\ overlay.navbarHidden = above
    /\ overlay' = handleMouseMove(overlay, above)
    /\ UNCHANGED pageStateVars

\* a click on the hamburger in the navbar: every toggleMenu listener runs
HamburgerClick ==
    /\ overlay.toggles > 0
    /\ ~overlay.navbarHidden
    /\ overlay' = Toggled(overlay, overlay.toggles)
    /\ UNCHANGED pageStateVars

\* a click on the active nav link: its closeMenu listeners
ActiveLinkClick ==
    /\ overlay.toggles > 0
    /\ ~overlay.navbarHidden
    /\ overlay' = closeMenu(overlay)
    /\ UNCHANGED pageStateVars

\* a click on a portfolio card, which neither the menu nor the lightbox
\* covers
CardClick ==
    /\ PageSetUp
    /\ ~overlay.menu /\ ~overlay.lightbox
    /\ overlay' = openModal(overlay)
    /\ UNCHANGED pageStateVars

\* a click on the close button of the modal or on its backdrop
ModalCloseClick ==
    /\ overlay.modal
    /\ overlay' = closeModal(overlay)
    /\ UNCHANGED pageStateVars

\* a double click on an album deck, which neither the menu nor the modal
\* covers
DeckDoubleClick ==
    /\ PageSetUp
    /\ ~overlay.menu /\ ~overlay.modal
    /\ overlay' = openAlbumLightbox(overlay)
    /\ UNCHANGED pageStateVars

\* a click on the close button of the lightbox or on its backdrop
LightboxCloseClick ==
    /\ overlay.lightbox
    /\ overlay' = closeLightbox(overlay)
    /\ UNCHANGED pageStateVars

\* the Escape key: the keydown listener of the modal closes an active
\* modal, handleKey of an open lightbox closes it
EscapeKey ==
    /\ overlay.modal \/ overlay.lightbox
    /\ overlay' = IF overlay.modal THEN closeModal(overlay) ELSE closeLightbox(overlay)
    /\ UNCHANGED pageStateVars

OverlayInit == InitWith(ColorViewports)

OverlayNext ==
    \/ SetupPage
    \/ \E above \in BOOLEAN : ModalMouseMove(above)
    \/ HamburgerClick
    \/ ActiveLinkClick
    \/ \E url \in Pages : NavClick(url)
    \/ \E k \in 1..Len(nav.loads) : LoadTimer(k)
    \/ \E k \in 1..Len(nav.loads), got \in Fetched : FetchDone(k, got)
    \/ CardClick
    \/ ModalCloseClick
    \/ DeckDoubleClick
    \/ LightboxCloseClick
    \/ EscapeKey

SpecOverlay == OverlayInit /\ [][OverlayNext]_vars

(***************************************************************************)
(* SpecGrid: connectParticles over particles placed on and around the      *)
(* borders of the grid's cells and the edges of the canvas                 *)
(***************************************************************************)
\* particles of the canvas
GridParticles == 3

\* a canvas two cells wide that holds GridParticles particles at the
\* mobile density, its bottom edge on a cell border
GridWidth == 2 * connectionDistance

GridHeight == connectionDistance * (GridParticles + 1)

\* positions <<x, y>>: left edge, just left of a cell border, on it, right
\* edge; just above a cell border, on it, bottom edge
GridPlaces ==
    {<<x, y>> : x \in {0, Px(connectionDistance) - 1, Px(connectionDistance), Px(GridWidth)},
                y \in {Px(connectionDistance) - 1, Px(connectionDistance), Px(GridHeight)}}

\* a particle at rest at place pl
ParticleAt(id, pl) ==
    [ParticleReset(id, <<500, 500, 500, 500, 500, 0>>, GridWidth, GridHeight)
        EXCEPT !.x = pl[1], !.y = pl[2]]

\* the renderer is initialized on the canvas and no frame is rendered yet
GridInit ==
    /\ canvas = [present |-> TRUE, initialized |-> TRUE, width |-> GridWidth,
                 height |-> GridHeight]
    /\ innerWidth = GridWidth
    /\ innerHeight = GridHeight
    /\ hidden = FALSE
    /\ theme = "dark"
    /\ \E at \in [1..GridParticles -> GridPlaces] :
         particles = [i \in 1..GridParticles |-> ParticleAt(i, at[i])]
    /\ shootingStars = <<>>
    /\ frameCount = 0
    /\ mouse = [x |-> -1000, y |-> -1000, active |-> FALSE]
    /\ frameColors = "dark"
    /\ colorCacheFrame = 0
    /\ timeouts = <<>>
    /\ rafPending = 1
    /\ intervals = 1
    /\ listeners = [mousemove |-> 1, mouseleave |-> 1, resize |-> 1]
    /\ painted = FALSE
    /\ lines = <<>>
    /\ glow = {}
    /\ forced = {}
    /\ clamped = {}
    /\ removed = {}
    /\ nextId = GridParticles + 1
    /\ nextStarId = 1
    /\ resized = [since |-> ResizeDelay, runs |-> 0, from |-> <<>>, turn |-> 0]
    /\ count = [signals |-> 0, runs |-> 0, spawnTicks |-> 0, pointer |-> 0,
                visibility |-> 0, guarded |-> 0,
                hiddenTicks |-> 0, styles |-> 0]
    /\ loop = [turn |-> 1, skipped |-> FALSE, resumed |-> FALSE]
    /\ colorReadFrame = 0
    /\ nav = [main |-> "index", title |-> "index", leaving |-> FALSE,
              active |-> "index", loads |-> <<>>, failed |-> FALSE]
    /\ puzzle = NoPuzzle(FALSE)
    /\ vhs = NoTape
    /\ overlay = NoOverlay

GridNext == animate

SpecGrid == GridInit /\ [][GridNext]_vars

(***************************************************************************)
(* LiveSpec: resize events without end.  Time passes and a due timeout is  *)
(* run: the two guarantees of the host's timers.                           *)
(***************************************************************************)
LiveInit == InitWith(StarViewports)

\* a due timeout's callback runs
RunDue == \E k \in 1..Len(timeouts) : ResizeTimeout(k)

LiveNext ==
    \/ initializeConstellation
    \/ \E size \in StarViewports : ResizeSignal(size)
    \/ Tick
    \/ RunDue
    \/ animate

LiveSpec == LiveInit /\ [][LiveNext]_vars /\ WF_vars(Tick) /\ WF_vars(RunDue)

(***************************************************************************)
(* Properties                                                              *)
(***************************************************************************)
\* the identities of the Particle objects of an array
ParticleIds(ps) == {ps[i].id : i \in 1..Len(ps)}

\* C1: after initialization and after any rendered frames, pointer moves
\* and leaves, star timer ticks and debounced resizes, every particle of
\* the current set has 0 <= x <= canvas width and 0 <= y <= canvas height.
ParticlesInsideCanvas ==
    \A i \in 1..Len(particles) :
        /\ 0 <= particles[i].x /\ particles[i].x <= canvas.width * Scale
        /\ 0 <= particles[i].y /\ particles[i].y <= canvas.height * Scale

\* C1's case: after a resize handler run and a pointer event, a frame has
\* clamped a particle of the recreated set at an edge
ParticleHeldAtEdge ==
    /\ count.runs >= 1
    /\ count.pointer >= 1
    /\ frameCount >= 2
    /\ \E i \in clamped :
          \/ particles[i].x \in {0, canvas.width * Scale}
          \/ particles[i].y \in {0, canvas.height * Scale}

\* C2: for particles inside the canvas, the unordered pairs connectParticles
\* draws a line for are exactly the unordered pairs of distinct particles
\* whose squared distance is strictly below the squared connection
\* distance (the comparison of all pairs); no pair is drawn twice.
LinesMatchAllPairs ==
    painted =>
        LET T == connectionDistance * Scale
            near(i, j) ==
                LET dx == particles[i].x - particles[j].x
                    dy == particles[i].y - particles[j].y
                IN \* |dx| < T and |dy| < T follow from dx^2 + dy^2 < T^2 and
                   \* keep the squares within TLC's integers
                   /\ -T < dx /\ dx < T
                   /\ -T < dy /\ dy < T
                   /\ dx * dx + dy * dy < T * T
            drawn == {{lines[k][1], lines[k][2]} : k \in 1..Len(lines)}
            all == {{i, j} : i, j \in 1..Len(particles)}
        IN /\ drawn = {pr \in all : Cardinality(pr) = 2
                                     /\ \E i, j \in pr : i # j /\ near(i, j)}
           /\ Cardinality(drawn) = Len(lines)

\* C2's case: a frame drew a line to a particle of the bottom-left
\* neighbor cell and left a pair of particles unconnected
LineToBottomLeftCell ==
    /\ painted
    /\ \E k \in 1..Len(lines) :
          /\ CellRow(particles[lines[k][2]]) = CellRow(particles[lines[k][1]]) + 1
          /\ CellCol(particles[lines[k][2]]) = CellCol(particles[lines[k][1]]) - 1
    /\ 2 * Len(lines) < Len(particles) * (Len(particles) - 1)

\* C3: after initialization and after each resize has taken effect, the
\* number of particles is floor(canvas width * canvas height / D), with
\* D = 30000 for a width below 768 and 15000 otherwise; it is 0 for an
\* empty area and 32 for an 800 x 600 surface.
ParticleCountByDensity ==
    canvas.initialized =>
        LET D == IF canvas.width < 768 THEN 30000 ELSE 15000
        IN /\ Len(particles) = (canvas.width * canvas.height) \div D
           /\ canvas.width * canvas.height = 0 => Len(particles) = 0
           /\ (canvas.width = 800 /\ canvas.height = 600) => Len(particles) = 32

\* C3's case: a resize has taken effect on an 800 x 600 window and left
\* 32 new particles
ResizedTo800x600 ==
    /\ count.runs >= 1
    /\ canvas.width = 800 /\ canvas.height = 600
    /\ Len(particles) = 32
    /\ resized.from # <<800, 600>>

\* C4: the membership of the particle set changes only when the debounced
\* resize handler runs: a rendered frame keeps the same particle objects
\* in the same places of the array, and a handler run re-reads the window
\* size into the canvas and replaces the whole set, so that no particle
\* object from before the run remains.
MembershipChangesOnlyOnResize ==
    [][canvas.initialized =>
         /\ ParticleIds(particles') # ParticleIds(particles)
               => count.runs' = count.runs + 1
         /\ frameCount' # frameCount
               => /\ Len(particles') = Len(particles)
                  /\ \A i \in 1..Len(particles) : particles'[i].id = particles[i].id
         /\ count.runs' = count.runs + 1
               => /\ ParticleIds(particles') \cap ParticleIds(particles) = {}
                  /\ canvas'.width = innerWidth /\ canvas'.height = innerHeight]_vars

\* C4's case: a handler run has replaced a set of particles by new ones,
\* and a frame has been rendered from the new ones
ParticlesReplaced ==
    /\ count.runs >= 1
    /\ painted
    /\ particles # <<>>
    /\ \A i \in 1..Len(particles) : particles[i].id > Len(particles)

\* C5 as amended: resizing the surface from 800 x 600 to 400 x 300 makes
\* the handler recompute the count at the density for widths below 768:
\* floor(120000 / 30000) = 4 particles.
QuarterSurfaceHoldsFour ==
    (resized.from = <<800, 600>> /\ canvas.width = 400 /\ canvas.height = 300)
        => Len(particles) = 4

\* C5 as stated: resizing the surface from 800 x 600 to 400 x 300
\* recomputes the count to floor(120000 / 15000) = 8 once the debounced
\* handler has run.
QuarterSurfaceHoldsEight ==
    (resized.from = <<800, 600>> /\ canvas.width = 400 /\ canvas.height = 300)
        => Len(particles) = 8

\* C5's case: the handler has run for the resize from 800 x 600 to
\* 400 x 300 and none of the 32 old particles is left
ResizedFrom800x600To400x300 ==
    /\ resized.from = <<800, 600>>
    /\ resized.runs = 1
    /\ canvas.width = 400 /\ canvas.height = 300
    /\ particles # <<>>
    /\ \A i \in 1..Len(particles) : particles[i].id > 32

\* C6 as amended: in a rendered frame that gives a particle no pointer
\* force and does not clamp it at an edge, each component of its velocity
\* stays on its side of the base velocity and comes no farther from it,
\* and comes nearer whenever the step of the return does not round to
\* zero; so |v - v0| does not increase in such a frame.
VelocityReturnsUnlessClamped ==
    [][(canvas.initialized /\ frameCount' # frameCount) =>
         \A i \in 1..Len(particles) :
            (i \notin forced' /\ i \notin clamped') =>
               LET step(v, w, b) ==
                       /\ (v >= b => (w >= b /\ w <= v))
                       /\ (v <= b => (w <= b /\ w >= v))
                       /\ (2 * Abs(v - b) * mouseReturnSpeed >= 1000 => w # v)
               IN /\ step(particles[i].vx, particles'[i].vx, particles[i].baseVx)
                  /\ step(particles[i].vy, particles'[i].vy, particles[i].baseVy)]_vars

\* C6 as stated: for a particle that receives no pointer force, the
\* distance |v - v0| between its velocity and its base velocity does not
\* grow from a rendered frame to the next.
VelocityDistanceNeverGrows ==
    [][(canvas.initialized /\ frameCount' # frameCount) =>
         \A i \in 1..Len(particles) :
            i \notin forced' =>
               LET dist2(p) == (p.vx - p.baseVx) * (p.vx - p.baseVx)
                                 + (p.vy - p.baseVy) * (p.vy - p.baseVy)
               IN dist2(particles'[i]) <= dist2(particles[i])]_vars

\* C6's case: the last frame neither forced nor clamped a particle whose
\* velocity is still away from its base velocity
VelocityOnItsWayBack ==
    /\ painted
    /\ \E i \in 1..Len(particles) :
          /\ i \notin forced /\ i \notin clamped
          /\ particles[i].vx # particles[i].baseVx

\* C7 as amended: each update of a shooting star strictly decreases its
\* life, and a star of the list that reports dead keeps reporting dead
\* through every step that does not enlarge the canvas (a resize handler
\* run that widens or heightens the canvas can bring a star that was dead
\* by its position back inside the margin).
DeadStaysDeadUnlessCanvasGrows ==
    [][\A i \in 1..Len(shootingStars), j \in 1..Len(shootingStars') :
          shootingStars'[j].id = shootingStars[i].id =>
             LET dead(s, c) == \/ s.life <= 0
                               \/ s.x > (c.width + 50) * Scale
                               \/ s.y > (c.height + 50) * Scale
             IN /\ frameCount' # frameCount
                     => shootingStars'[j].life < shootingStars[i].life
                /\ (/\ dead(shootingStars[i], canvas)
                    /\ canvas'.width <= canvas.width
                    /\ canvas'.height <= canvas.height)
                     => dead(shootingStars'[j], canvas')]_vars

\* C7 as stated: once a star reports dead (life <= 0, or position beyond
\* the canvas bounds plus margin) it reports dead after every step of the
\* program: frames, timer ticks and resizes.
DeadStaysDead ==
    [][\A i \in 1..Len(shootingStars), j \in 1..Len(shootingStars') :
          shootingStars'[j].id = shootingStars[i].id =>
             LET dead(s, c) == \/ s.life <= 0
                               \/ s.x > (c.width + 50) * Scale
                               \/ s.y > (c.height + 50) * Scale
             IN dead(shootingStars[i], canvas) => dead(shootingStars'[j], canvas')]_vars

\* C7's case: a star of the list has been updated by a frame and reports
\* dead, after a resize handler run
DeadStarAfterResize ==
    /\ count.runs >= 1
    /\ \E i \in 1..Len(shootingStars) :
          /\ shootingStars[i].life < 1000
          /\ isDead(shootingStars[i], canvas.width, canvas.height)

NoPointerNoGlowNoForce ==
    /\ [][(frameCount' # frameCount /\ ~mouse.active) =>
            /\ glow' = {}
            /\ forced' = {}
            /\ canvas.initialized =>
                  \A i \in 1..Len(particles) :
                     LET toward(v, w, b) == \/ (b <= w /\ w <= v)
                                            \/ (v <= w /\ w <= b)
                         p == particles[i]
                         q == particles'[i]
                     IN /\ i \notin clamped' => /\ toward(p.vx, q.vx, p.baseVx)
                                                /\ toward(p.vy, q.vy, p.baseVy)
                        /\ Abs(q.vx) <= Max(Abs(p.vx), Abs(p.baseVx))
                        /\ Abs(q.vy) <= Max(Abs(p.vy), Abs(p.baseVy))]_vars
    /\ [](count.pointer = 0 =>
            /\ glow = {}
            /\ forced = {}
            /\ \A i \in 1..Len(particles) :
                  /\ Abs(particles[i].vx) <= Abs(particles[i].baseVx)
                  /\ Abs(particles[i].vy) <= Abs(particles[i].baseVy))

\* C9 as stated: while the pointer has been inactive for the entire
\* session, each velocity only relaxes toward its base velocity: no
\* rendered frame takes a velocity component farther from its base value.
VelocityOnlyRelaxesWithoutPointer ==
    [][(canvas.initialized /\ count.pointer' = 0 /\ frameCount' # frameCount) =>
          \A i \in 1..Len(particles) :
             /\ Abs(particles'[i].vx - particles[i].baseVx)
                   <= Abs(particles[i].vx - particles[i].baseVx)
             /\ Abs(particles'[i].vy - particles[i].baseVy)
                   <= Abs(particles[i].vy - particles[i].baseVy)]_vars

\* C9's case: the pointer has moved over the canvas and left, and the
\* last frame drew no glow line and forced no particle although a particle
\* lies within the repel radius of the pointer's last position
FrameAfterPointerLeft ==
    /\ painted
    /\ ~mouse.active
    /\ mouse.x >= 0
    /\ glow = {} /\ forced = {}
    /\ \E i \in 1..Len(particles) :
          /\ Repelled(particles[i], [mouse EXCEPT !.active = TRUE])
          /\ particles[i].vx # particles[i].baseVx

\* C10 as amended: the resize handler body runs only when 250 ms have
\* passed since the most recent resize event, and at most once after it;
\* every resize event is eventually followed by a run of the handler or
\* by a further resize event (so a burst that ends causes exactly one
\* run, after its last event).
OneRunAfterQuietPeriod ==
    /\ [](resized.runs >= 1 => resized.since >= 250)
    /\ [](resized.runs <= 1)
    /\ \A t \in {0, 1} :
          (timeouts # <<>> /\ resized.turn = t)
             ~> (resized.runs >= 1 \/ resized.turn # t)

\* C10 as stated: every resize event is eventually followed by a run of
\* the handler.
EveryResizeEventuallyRuns ==
    (timeouts # <<>>) ~> (resized.runs >= 1)

\* C10's case: two resize events, the second within 250 ms of the first,
\* have been followed by one run of the handler
BurstOfTwoRanOnce ==
    /\ count.signals = 2
    /\ count.runs = 1
    /\ resized.runs = 1
    /\ timeouts = <<>>

\* C11: a frame callback that runs while the document is hidden changes
\* nothing of the renderer (frame counter, particles, shooting stars,
\* cached colours and their counter) and draws nothing; it only requests
\* the next frame, so one request is outstanding after it as before.
HiddenFrameChangesNothing ==
    [][(canvas.initialized /\ hidden /\ loop'.turn # loop.turn) =>
          /\ UNCHANGED <<frameCount, particles, shootingStars, frameColors,
                         colorCacheFrame, colorReadFrame, removed>>
          /\ UNCHANGED <<painted, lines, glow, forced, clamped>>
          /\ rafPending' = rafPending
          /\ rafPending' >= 1]_vars

\* C11's case: after a rendered frame the document was hidden and a frame
\* callback has run
CallbackRanWhileHidden ==
    /\ hidden
    /\ loop.skipped
    /\ frameCount >= 1
    /\ particles # <<>>

\* C12: every frame callback, hidden or visible, requests exactly one next
\* frame, so that exactly one frame request is outstanding at all times
\* after initialization (and none before), and a callback that finds the
\* document visible renders a full frame: after the document has become
\* visible again the loop goes on without a restart.
OneFrameRequestOutstanding ==
    /\ [](rafPending = IF canvas.initialized THEN 1 ELSE 0)
    /\ [][(canvas.initialized /\ loop'.turn # loop.turn) =>
             /\ rafPending' = rafPending
             /\ ~hidden => (frameCount' = frameCount + 1 /\ painted')]_vars

\* C12's case: a callback ran while the document was hidden, the document
\* became visible again and the next callback rendered a frame
FrameRenderedAfterShowing ==
    /\ loop.resumed
    /\ ~hidden
    /\ painted
    /\ count.visibility >= 2

\* C16: without the drawing surface initializeConstellation does nothing:
\* no pointer or resize listener is registered, no timer is started, no
\* frame is requested and no particle is made.
NothingStartedWithoutCanvas ==
    ~canvas.present =>
        /\ listeners = [mousemove |-> 0, mouseleave |-> 0, resize |-> 0]
        /\ intervals = 0
        /\ timeouts = <<>>
        /\ rafPending = 0
        /\ particles = <<>>
        /\ shootingStars = <<>>
        /\ ~canvas.initialized
        /\ ~painted

\* C16's case: initializeConstellation has been called without the canvas
InitializedWithoutCanvas ==
    /\ ~canvas.present
    /\ count.guarded >= 1

StarsComeFromVisibleTicksOnly ==
    [][LET added == StarIds(shootingStars') \ StarIds(shootingStars)
       IN /\ Cardinality(added) <= 1
          /\ added # {} => (count'.spawnTicks # count.spawnTicks /\ ~hidden)
          /\ (count'.spawnTicks # count.spawnTicks /\ hidden) =>
                 shootingStars' = shootingStars
          /\ count'.spawnTicks = count.spawnTicks =>
                 Len(shootingStars') <= Len(shootingStars)]_vars

\* C18's case: of two ticks, one came while the document was hidden and
\* added nothing, the other added one star
TickedHiddenAndVisible ==
    /\ count.spawnTicks = 2
    /\ count.hiddenTicks = 1
    /\ Len(shootingStars) = 1
    /\ nextStarId = 2

\* C14: the colours are read from the page again on the rendered frames
\* 1, 61, 121, ... and on no other frame, and every rendered frame draws
\* with the colours of the latest reading: the frame that reads takes the
\* colours the page has then, every other frame keeps the cached ones, so
\* a change of theme is drawn at most 60 rendered frames later.
ColorsReadEverySixtiethFrame ==
    /\ [](frameCount >= 1 =>
            /\ colorCacheFrame = frameCount
            /\ colorReadFrame =
                 ColorRefreshFrames * ((frameCount - 1) \div ColorRefreshFrames) + 1)
    /\ [][frameCount' # frameCount =>
             frameColors' = IF colorReadFrame' = frameCount' THEN theme
                            ELSE frameColors]_vars

\* C14's case: the theme was toggled after frame 1 had read the colours,
\* frames were drawn with the old colours and frame 61 has read the new ones
SecondReadingTookNewTheme ==
    /\ frameCount = ColorRefreshFrames + 1
    /\ colorReadFrame = ColorRefreshFrames + 1
    /\ count.styles = 1
    /\ frameColors = "light"
    /\ theme = "light"

\* C13: an exception thrown in a frame does not stop the loop: after a
\* frame callback that ends with an exception a frame request is
\* outstanding.
ThrowingFrameStillRequestsNext ==
    [][(/\ canvas.initialized
        /\ ~hidden
        /\ loop'.turn # loop.turn
        /\ FrameThrows(shootingStars, colorCacheFrame, frameColors,
                       canvas.width, canvas.height))
         => rafPending' >= 1]_vars

\* C15: when the style gives no colours on a frame that reads them, the
\* frame keeps the colours cached before and completes: the cache is
\* unchanged and the next frame is requested.
FailedReadingKeepsCachedColors ==
    [][(/\ canvas.initialized
        /\ ~hidden
        /\ frameCount' # frameCount
        /\ ColorsRefreshed(colorCacheFrame)
        /\ ~ColorParses(getConstellationColors))
         => (frameColors' = frameColors /\ rafPending' >= 1)]_vars

\* the loadPage calls have all resolved
AllLoadsResolved == \A k \in 1..Len(nav.loads) : nav.loads[k].phase = "resolved"

\* C19: when several page loads were in flight at once and all of them have
\* completed, main and the title are those of the page requested last, the
\* page of the active nav link.
LastRequestedPageShown ==
    (/\ Len(nav.loads) >= 2
     /\ AllLoadsResolved
     /\ ~nav.failed)
        => (nav.main = nav.active /\ nav.title = nav.active)

\* C20: every loadPage call resolves, and when it does main does not carry
\* 'is-leaving', whatever the fetch gave.
ResolvedLoadLeavesNoIsLeaving ==
    [][\A k \in 1..Len(nav.loads) :
          (/\ Len(nav'.loads) = Len(nav.loads)
           /\ nav.loads[k].phase = "fetch"
           /\ nav'.loads[k].phase = "resolved")
             => ~nav'.leaving]_vars

\* two particles lie in the same cell of the grid or in adjacent cells
\* (rows and columns at most one apart)
SameOrAdjacentCells(p, q) ==
    /\ Abs(CellRow(p) - CellRow(q)) <= 1
    /\ Abs(CellCol(p) - CellCol(q)) <= 1

\* C21: connectParticles evaluates every unordered pair of distinct
\* particles that lie in the same cell or in adjacent cells exactly once in
\* a frame, and no other pair: no pair is evaluated twice (so no line is
\* drawn twice) and no particle is paired with itself.
EachNearPairEvaluatedOnce ==
    LET pairs == EvaluatedPairs(particles, canvas.width, canvas.height)
        evaluated == {{pairs[k][1], pairs[k][2]} : k \in 1..Len(pairs)}
    IN /\ \A k \in 1..Len(pairs) : pairs[k][1] # pairs[k][2]
       /\ evaluated = {pr \in SUBSET (1..Len(particles)) :
                          /\ Cardinality(pr) = 2
                          /\ \A i, j \in pr :
                                SameOrAdjacentCells(particles[i], particles[j])}
       /\ Cardinality(evaluated) = Len(pairs)
       /\ \A k \in 1..Len(lines) :
             \E n \in 1..Len(pairs) : pairs[n] = lines[k]

\* C21's case: a frame was drawn with two particles in one cell and a
\* third in a cell that is not adjacent to theirs: one pair evaluated
PairInOneCellAndFarParticle ==
    /\ painted
    /\ \E i, j \in 1..Len(particles) :
          /\ i # j
          /\ CellRow(particles[i]) = CellRow(particles[j])
          /\ CellCol(particles[i]) = CellCol(particles[j])
    /\ \E i, j \in 1..Len(particles) :
          ~SameOrAdjacentCells(particles[i], particles[j])
    /\ Len(EvaluatedPairs(particles, canvas.width, canvas.height)) = 1

\* C22: in the grid of a frame every particle index is in exactly one
\* bucket, and two particles share a bucket exactly when their cells have
\* the same row and the same column: for positions in [0, W] x [0, H],
\* x = W and y = H included, the column is below cols and the row below
\* rows, so two cells never have the same key row * cols + col.
OneBucketPerCell ==
    LET cols == GridCols(canvas.width)
        rows == GridRows(canvas.height)
        \* the keys of the sparse grid object
        keys == {CellKey(particles[i], cols) : i \in 1..Len(particles)}
        grid == [key \in keys |-> Bucket(particles, cols, key)]
        held == [key \in keys |-> {grid[key][n] : n \in 1..Len(grid[key])}]
    IN /\ \A i \in 1..Len(particles) :
             /\ Cardinality({key \in keys : i \in held[key]}) = 1
             /\ CellCol(particles[i]) \in 0..(cols - 1)
             /\ CellRow(particles[i]) \in 0..(rows - 1)
       /\ \A key \in keys : Cardinality(held[key]) = Len(grid[key])
       /\ \A i, j \in 1..Len(particles) :
             (\E key \in keys : i \in held[key] /\ j \in held[key])
               <=> (/\ CellRow(particles[i]) = CellRow(particles[j])
                    /\ CellCol(particles[i]) = CellCol(particles[j]))

\* C22's case: a frame was drawn with a particle on the right edge in one
\* row, a particle in the first column of the next row, and a particle on
\* the bottom edge
ParticlesOnRightEdgeAndNextRow ==
    /\ painted
    /\ \E i, j \in 1..Len(particles) :
          /\ particles[i].x = Px(canvas.width)
          /\ CellCol(particles[j]) = 0
          /\ CellRow(particles[j]) = CellRow(particles[i]) + 1
    /\ \E i \in 1..Len(particles) : particles[i].y = Px(canvas.height)

\* one axis of C23: the position moved to went, the velocity integrated
\* vel, the edge at limit; after the update the particle is at pos with
\* velocity v
TurnedBackAtEdge(went, vel, limit, pos, v) ==
    /\ went < 0 => (pos = 0 /\ v > 0)
    /\ went > limit => (pos = limit /\ v < 0)
    /\ (went >= 0 /\ went <= limit) => (pos = went /\ v = vel)

\* C23: when the update of a frame moves a particle past an edge of the
\* canvas, the particle is put exactly on that edge and the velocity
\* component of that axis points inward afterwards (vx > 0 at the left
\* edge, vx < 0 at the right, vy > 0 at the top, vy < 0 at the bottom), for
\* x and y independently; an axis that passes no edge is left alone.
PastEdgeMeansOnEdgeAndInward ==
    [][(canvas.initialized /\ frameCount' = frameCount + 1) =>
         \A i \in 1..Len(particles) :
            LET v == Steered(particles[i], mouse)
            IN /\ TurnedBackAtEdge(particles[i].x + v[1], v[1], Px(canvas.width),
                                   particles'[i].x, particles'[i].vx)
               /\ TurnedBackAtEdge(particles[i].y + v[2], v[2], Px(canvas.height),
                                   particles'[i].y, particles'[i].vy)]_vars

\* C23's case: a frame has put a particle on the right or the bottom edge
\* with its velocity turned inward, against its base velocity
ParticleTurnedBackAtFarEdge ==
    /\ painted
    /\ \E i \in clamped :
          \/ /\ particles[i].x = Px(canvas.width)
             /\ particles[i].vx < 0
             /\ particles[i].baseVx > 0
          \/ /\ particles[i].y = Px(canvas.height)
             /\ particles[i].vy < 0
             /\ particles[i].baseVy > 0

\* the star of a list that has identity id
StarOf(stars, id) == CHOOSE st \in {stars[k] : k \in 1..Len(stars)} : st.id = id

\* C24: however the ticks of the star timer and the frame callbacks are
\* interleaved, a star the timer added is never lost: every step that is
\* not a rendered frame leaves it in the list as it is, a rendered frame
\* that finds it alive advances it exactly once and keeps it, and only a
\* rendered frame that finds it dead filters it out.
StarsNeverLostBetweenTicksAndFrames ==
    [][\A k \in 1..Len(shootingStars) :
          LET st == shootingStars[k]
          IN IF frameCount' = frameCount
             THEN /\ st.id \in StarIds(shootingStars')
                  /\ StarOf(shootingStars', st.id) = st
             ELSE IF isDead(st, canvas.width, canvas.height)
             THEN /\ st.id \notin StarIds(shootingStars')
                  /\ st.id \in removed'
             ELSE /\ st.id \in StarIds(shootingStars')
                  /\ StarOf(shootingStars', st.id) = ShootingStarUpdate(st)
                  /\ st.id \notin removed']_vars

\* C24's case: a tick added a second star between two frames that advanced
\* the first: the first star has been advanced twice, the second once
TickBetweenFramesOfAStar ==
    /\ Len(shootingStars) = 2
    /\ StarLife - shootingStars[1].life = 2 * shootingStars[1].decay
    /\ StarLife - shootingStars[2].life = shootingStars[2].decay


(***************************************************************************)
(* The bio puzzle: properties                                              *)
(***************************************************************************)
\* the frame requests of simulateGravity that are outstanding
GravityRequests == puzzle.untracked + (IF puzzle.tracked THEN 1 ELSE 0)

\* C27: after any clicks on the puzzle button, scatter timers, drags and
\* drops, never more than one frame request of simulateGravity is
\* outstanding
AtMostOnePhysicsLoop == GravityRequests <= 1

\* puzzleComplete() was the last to end a session and no scatterPuzzle()
\* has run since
Completed == ~puzzle.active /\ puzzle.endedBy = "complete"

\* C25: after puzzleComplete and until the next scatterPuzzle every
\* original tile has its inline styles cleared and no ghost and no label
\* tile is in the document, whatever timeouts of snapPiece and finishPuzzle
\* fire afterwards
CompletedPuzzleStaysClean ==
    Completed =>
        /\ \A s \in 1..PuzzleSlots : puzzle.orig[s] = "flow"
        /\ \A i \in DOMAIN puzzle.objs : ~puzzle.objs[i].tile /\ ~puzzle.objs[i].ghost

\* the timeout that fires next
Firing == puzzle.timers[CHOOSE j \in Due : \A d \in Due : j <= d]

\* a step in which a timeout runs puzzleComplete
CompleteFires == Due # {} /\ puzzle'.last \in {"complete", "snapped"}

\* C26: a session started by scatterPuzzle stays active until the user
\* clicks the button again, every piece of the session is placed, or the
\* cleanup of navigation runs; and a puzzleComplete timeout set in an
\* earlier session never ends a later one
SessionEndsByClickPlacingOrCleanup ==
    [][(puzzle.active /\ ~puzzle'.active) =>
          /\ \/ puzzle'.last = "finish"
             \/ puzzle'.last = "load"
             \/ \A i \in puzzle.pieces : puzzle.objs[i].placed
          /\ CompleteFires => Firing.session = puzzle.session]_vars

\* the handlers of the physics and of a drag: a frame of simulateGravity,
\* the 500 ms timeout that calls it, onMove and onUp
PhysicsOrDrag == {"gravity", "drop", "move", "release"}

\* C28: a piece becomes placed only by a drop with its tile fully inside
\* the rectangle of its own ghost or by finishPuzzle; within a session a
\* placed piece stays placed and is moved neither by the physics nor by
\* dragging
PlacedByDropOrFinishAndNeverMoved ==
    [][\A i \in DOMAIN puzzle.objs :
          /\ (~puzzle.objs[i].placed /\ puzzle'.objs[i].placed) =>
                \/ puzzle'.last = "finish"
                \/ puzzle'.last = "release" /\ i \in puzzle.drags /\ Inside(puzzle, i)
          /\ (puzzle.objs[i].placed /\ i \in puzzle.pieces /\ i \in puzzle'.pieces) =>
                /\ puzzle'.objs[i].placed
                /\ puzzle'.last \in PhysicsOrDrag =>
                      puzzle'.objs[i].pos = puzzle.objs[i].pos]_vars

\* onUp snaps piece i, the last unplaced piece of the session, into its
\* ghost
LastSnap(i) ==
    /\ puzzle'.last = "release"
    /\ puzzle.active
    /\ i \in puzzle.drags \cap puzzle.pieces
    /\ Inside(puzzle, i)
    /\ Unplaced(puzzle) = {i}

\* C29: when the last unplaced piece of a session is snapped into its
\* ghost, puzzleComplete is set to run 650 ms later, and it runs: the
\* puzzle gets inactive with the label 'Puzzle Mode' on its button
LastSnapCompletesPuzzle ==
    /\ [][\A i \in DOMAIN puzzle.objs :
            LastSnap(i) =>
                /\ puzzle'.owed = puzzle.owed + 1
                /\ puzzle'.timers[Len(puzzle'.timers)]
                      = PuzzleTimeout("snapped", CompleteDelay, 0, puzzle.session)]_vars
    /\ (puzzle.owed > 0) ~> (~puzzle.active /\ puzzle.label = "Puzzle Mode")

\* the second of two pieces has been snapped after the first, 650 ms
\* have passed and puzzleComplete has run
SnappedPuzzleCompleted ==
    /\ puzzle.last = "snapped"
    /\ Completed
    /\ puzzle.label = "Puzzle Mode"
    /\ puzzle.session = 1
    /\ puzzle.moves = PuzzleSlots + 1
    /\ puzzle.owed = 0

\* the label tiles and the ghosts in the document
TilesAndGhosts(pz) ==
    Cardinality({i \in DOMAIN pz.objs : pz.objs[i].tile})
    + Cardinality({i \in DOMAIN pz.objs : pz.objs[i].ghost})

\* the callbacks of the puzzle's timeouts and of a drag
TimerOrDrag == {"drop", "seat", "stagger", "complete", "snapped", "move", "release"}

\* C30: a navigation that starts while the puzzle is active makes it
\* inactive, removes every label tile and ghost, cancels the physics loop
\* and removes the scroll handler, before the content of the page is
\* replaced; and no timeout or drag callback that fires after the cleanup
\* brings back a tile or a ghost or restarts the physics
NavigationCleansPuzzle ==
    [][/\ (puzzle.active /\ Len(nav'.loads) > Len(nav.loads)) =>
            /\ ~puzzle'.active
            /\ TilesAndGhosts(puzzle') = 0
            /\ ~puzzle'.tracked
            /\ puzzle'.scrolls = 0
       /\ (~puzzle.active /\ puzzle.endedBy = "cleanup" /\ puzzle'.last \in TimerOrDrag) =>
            /\ TilesAndGhosts(puzzle') <= TilesAndGhosts(puzzle)
            /\ ~puzzle'.tracked]_vars


(***************************************************************************)
(* The VHS shelf: properties                                               *)
(***************************************************************************)
\* C31: the video container holds a video only while a tape is inserted
\* and the player is active, and the video is that of the current tape: a
\* tape ejected or replaced before the 1200 ms have passed never has its
\* video loaded afterwards
VideoIsOfInsertedTape ==
    vhs.video # 0 =>
        /\ vhs.current = vhs.video
        /\ vhs.video \in vhs.inserted
        /\ vhs.active

\* C32: the callback of ejectTape's timeout always finds a current tape:
\* after any clicks on tapes and on the eject button, two ejects within
\* the 400 ms among them, no callback reads a property of a null
\* currentTape
EjectCallbackFindsTape == ~vhs.threw

\* C33: at most one tape has the class 'inserted', and a tape that has it
\* is the current tape, after any clicks on tapes and on the eject button
\* and any callbacks of the timeouts
OnlyCurrentTapeInserted ==
    /\ Cardinality(vhs.inserted) <= 1
    /\ \A tape \in vhs.inserted : tape = vhs.current

\* the second tape has replaced the first before the video of the first
\* was loaded, and is the only tape inserted
TapeReplacedBeforeLoad ==
    /\ vhs.current = 2
    /\ vhs.inserted = {2}
    /\ vhs.active
    /\ \E k \in 1..Len(vhs.timers) : vhs.timers[k].kind = "load" /\ vhs.timers[k].tape = 1

(***************************************************************************)
(* The overlays: properties                                                *)
(***************************************************************************)
\* C34: the body has the class 'modal-open' exactly when the hamburger
\* menu, the portfolio modal or the album lightbox is open, after any
\* clicks on the hamburger and on nav links and any opening and closing of
\* the modal and of the lightbox
ModalOpenIffAnOverlayOpen ==
    overlay.body <=> (overlay.menu \/ overlay.modal \/ overlay.lightbox)

=============================================================================
